---- MODULE Spec2Model ----
(***************************************************************************)
(* A model of pybirdwatcher: the Birdwatcher client (client.py) and the    *)
(* typed entities it maps decoded records to (models.py).                  *)
(*                                                                         *)
(* A Python str is a sequence of one-character strings, so that            *)
(* startswith, lower, upper, replace, strip and the `in` test are computed *)
(* character by character as Python computes them.  A Python value that    *)
(* json.loads can return is a tagged record [t |-> type, v |-> payload].   *)
(* A call of a public method is two steps: the method composes its command *)
(* and blocks in subprocess.run (pc = "waiting"); the subprocess ends and  *)
(* the rest of the method runs (pc = "idle").                              *)
(***************************************************************************)
EXTENDS Integers, Sequences, FiniteSets, TLC

VARIABLES
    etcd_addr,    \* Birdwatcher._etcd_addr : Optional[str]
    root_path,    \* Birdwatcher._root_path : Optional[str]
    auto_detect,  \* Birdwatcher._auto_detect : bool
    timeout,      \* Birdwatcher._timeout : int
    pc,           \* "idle", or "waiting" inside subprocess.run
    call,         \* the public method in progress (or last finished) and its arguments
    invoked,      \* the subprocess invocations of that call, in order
    proc,         \* what the last subprocess invocation ended with
    outcome       \* what the call returned or raised

vars == <<etcd_addr, root_path, auto_detect, timeout, pc, call, invoked, proc, outcome>>
ctx == <<etcd_addr, root_path, auto_detect, timeout>>

(***************************************************************************)
(* Python str operations                                                   *)
(***************************************************************************)
UpperChars == <<"A","B","C","D","E","F","G","H","I","J","K","L","M","N","O","P","Q","R","S","T","U","V","W","X","Y","Z">>
LowerChars == <<"a","b","c","d","e","f","g","h","i","j","k","l","m","n","o","p","q","r","s","t","u","v","w","x","y","z">>
DigitChars == <<"0","1","2","3","4","5","6","7","8","9">>
Whitespace == {" ", "\n", "\t", "\r"}

\* str.lower(), one character
lower_char(c) ==
    IF \E i \in 1..26 : UpperChars[i] = c
    THEN LowerChars[CHOOSE i \in 1..26 : UpperChars[i] = c]
    ELSE c

\* str.upper(), one character
upper_char(c) ==
    IF \E i \in 1..26 : LowerChars[i] = c
    THEN UpperChars[CHOOSE i \in 1..26 : LowerChars[i] = c]
    ELSE c

lower(s) == [i \in 1..Len(s) |-> lower_char(s[i])]
upper(s) == [i \in 1..Len(s) |-> upper_char(s[i])]

\* s.replace(old, new) for one-character old and new
replace(s, old, new) == [i \in 1..Len(s) |-> IF s[i] = old THEN new ELSE s[i]]

\* sub in s
contains(sub, s) ==
    \E i \in 0..(Len(s) - Len(sub)) : SubSeq(s, i + 1, i + Len(sub)) = sub

\* s.startswith(prefix)
startswith(s, prefix) ==
    Len(s) >= Len(prefix) /\ SubSeq(s, 1, Len(prefix)) = prefix

\* s.strip()
strip(s) ==
    LET keep == {i \in 1..Len(s) : s[i] \notin Whitespace}
    IN  IF keep = {} THEN <<>>
        ELSE SubSeq(s, CHOOSE i \in keep : \A j \in keep : i <= j,
                       CHOOSE i \in keep : \A j \in keep : j <= i)

\* f"{n}" for an int n >= 0
RECURSIVE str_int(_)
str_int(n) ==
    IF n < 10 THEN <<DigitChars[n + 1]>>
    ELSE str_int(n \div 10) \o <<DigitChars[(n % 10) + 1]>>

(***************************************************************************)
(* Python values                                                           *)
(***************************************************************************)
None == <<>>                 \* an Optional argument or attribute that is None
Some(x) == <<x>>             \* ... that holds x
PyNone == [t |-> "None", v |-> <<>>]
PyInt(n) == [t |-> "int", v |-> n]
PyStr(s) == [t |-> "str", v |-> s]
PyBool(b) == [t |-> "bool", v |-> b]
PyList(items) == [t |-> "list", v |-> items]
PyDict(d) == [t |-> "dict", v |-> d]

\* bool(o) for an Optional[str]
truthy_str(o) == o # None /\ o[1] # <<>>
\* a truth test that takes the identity 0 for an identity
truthy_int_not_none(o) == o # None
\* bool(o) for an Optional[int]
truthy_int(o) == o # None /\ o[1] # 0

\* an int (a bool is an int) and its value
numeric(x) == x.t \in {"int", "bool"}
num(x) == IF x.t = "bool" THEN (IF x.v THEN 1 ELSE 0) ELSE x.v

\* what a call ends with
Return(value) == [kind |-> "return", exc |-> "", msg |-> <<>>, value |-> value]
Raise(exc, msg) == [kind |-> "raise", exc |-> exc, msg |-> msg, value |-> PyNone]
Pending == [kind |-> "pending", exc |-> "", msg |-> <<>>, value |-> PyNone]

(***************************************************************************)
(* Command Composer and Execution Channel: Birdwatcher._run_command        *)
(***************************************************************************)
DefaultTimeout == 30
binary == <<"/","p","k","g","/","b","i","n","/","b","i","r","d","w","a","t","c","h","e","r">>          \* str(self._binary)
lit_connect == <<"c","o","n","n","e","c","t">>
lit_connect_etcd == <<"c","o","n","n","e","c","t"," ","-","-","e","t","c","d"," ">>
lit_failed_to_connect == <<"f","a","i","l","e","d"," ","t","o"," ","c","o","n","n","e","c","t">>

\* a composer that prepends the connection to a connect command as well
full_cmd_always_prefix(command) ==
    IF truthy_str(etcd_addr)
    THEN lit_connect_etcd \o etcd_addr[1] \o <<","," ">> \o command
    ELSE command

\* full_cmd as lines 136-143 build it from the command and the connection context
full_cmd(command) ==
    IF truthy_str(etcd_addr) /\ ~startswith(command, lit_connect)
    THEN LET c1 == lit_connect_etcd \o etcd_addr[1]
             c2 == IF truthy_str(root_path)
                   THEN c1 \o <<" ","-","-","r","o","o","t","P","a","t","h"," ">> \o root_path[1] ELSE c1
             connect_cmd == IF auto_detect THEN c2 \o <<" ","-","-","a","u","t","o">> ELSE c2
         IN  connect_cmd \o <<","," ">> \o command
    ELSE command

\* an invocation bounded by the configured timeout whatever the call gave
Invocation_configured_only(command, timeout_arg) ==
    [command |-> command,
     full_cmd |-> full_cmd(command),
     timeout |-> timeout]

\* one subprocess.run: the command asked for, the command line handed to the
\* binary after -olc, and the timeout bound (lines 133-134, 146-151)
Invocation(command, timeout_arg) ==
    [command |-> command,
     full_cmd |-> full_cmd(command),
     timeout |-> IF timeout_arg = None THEN timeout ELSE timeout_arg[1]]

\* what subprocess.run ends with
Exited(returncode, stdout, stderr) ==
    [status |-> "exited", returncode |-> returncode, stdout |-> stdout, stderr |-> stderr]
TimeoutExpired == [status |-> "TimeoutExpired", returncode |-> 0, stdout |-> <<>>, stderr |-> <<>>]
FileNotFoundError == [status |-> "FileNotFoundError", returncode |-> 0, stdout |-> <<>>, stderr |-> <<>>]
NoProc == [status |-> "none", returncode |-> 0, stdout |-> <<>>, stderr |-> <<>>]

\* result.stderr or result.stdout (line 154)
error_msg(p) == IF p.stderr # <<>> THEN p.stderr ELSE p.stdout

\* a marker test that does not lower-case the diagnostic
is_connect_failure_case_sensitive(msg) == contains(lit_failed_to_connect, msg)

\* "failed to connect" in error_msg.lower() (line 155)
is_connect_failure(msg) == contains(lit_failed_to_connect, lower(msg))

\* _run_command from the end of subprocess.run on (lines 153-164)
_run_command(inv, p) ==
    CASE p.status = "TimeoutExpired" ->
            Raise("BirdwatcherError",
                  <<"C","o","m","m","a","n","d"," ","t","i","m","e","d"," ","o","u","t"," ","a","f","t","e","r"," ">> \o str_int(inv.timeout) \o <<"s">>)
      [] p.status = "FileNotFoundError" ->
            Raise("BirdwatcherError", <<"B","i","n","a","r","y"," ","n","o","t"," ","f","o","u","n","d",":"," ">> \o binary)
      [] OTHER ->
            IF p.returncode # 0
            THEN IF is_connect_failure(error_msg(p))
                 THEN Raise("ConnectionError",
                            <<"F","a","i","l","e","d"," ","t","o"," ","c","o","n","n","e","c","t"," ","t","o"," ","e","t","c","d",":"," ">> \o error_msg(p))
                 ELSE Raise("BirdwatcherError", <<"C","o","m","m","a","n","d"," ","f","a","i","l","e","d",":"," ">> \o error_msg(p))
            ELSE Return(PyStr(p.stdout))

(***************************************************************************)
(* json.loads, as the standard decoder scans a str.  Indices are Python's  *)
(* (from 0).  The texts of this model hold no backslash, sign, fraction or *)
(* exponent character, so escapes and non-integer numbers do not occur.    *)
(***************************************************************************)
\* s[i:i+1]
at(s, i) == IF i >= 0 /\ i < Len(s) THEN s[i + 1] ELSE ""
\* s[a:b]
slice(s, a, b) == IF b > Len(s) THEN SubSeq(s, a + 1, Len(s)) ELSE SubSeq(s, a + 1, b)

\* WHITESPACE.match(s, i).end()
RECURSIVE skip_ws(_, _)
skip_ws(s, i) == IF at(s, i) \in Whitespace THEN skip_ws(s, i + 1) ELSE i

JsonOk(value, end) == [ok |-> TRUE, value |-> value, end |-> end, msg |-> <<>>]
\* JSONDecodeError(msg, doc, pos)
JsonErr(msg, pos) == [ok |-> FALSE, value |-> PyNone, end |-> pos, msg |-> msg]

IsDigit(c) == \E i \in 1..10 : DigitChars[i] = c
digit_value(c) == (CHOOSE i \in 1..10 : DigitChars[i] = c) - 1

RECURSIVE digits_end(_, _)
digits_end(s, i) == IF IsDigit(at(s, i)) THEN digits_end(s, i + 1) ELSE i

\* int(digits)
RECURSIVE int_of(_)
int_of(ds) ==
    IF ds = <<>> THEN 0
    ELSE 10 * int_of(SubSeq(ds, 1, Len(ds) - 1)) + digit_value(ds[Len(ds)])

\* NUMBER_RE at idx: (0|[1-9]\d*)
scan_number(s, idx) ==
    LET end == IF at(s, idx) = "0" THEN idx + 1 ELSE digits_end(s, idx)
    IN  JsonOk(PyInt(int_of(slice(s, idx, end))), end)

\* scanstring(s, end): end is the index after the opening quote
RECURSIVE chunk_end(_, _)
chunk_end(s, i) ==
    IF i >= Len(s) \/ at(s, i) = "\"" \/ at(s, i) \in {"\n", "\t", "\r"}
    THEN i ELSE chunk_end(s, i + 1)

scanstring(s, end) ==
    LET j == chunk_end(s, end)
    IN  IF j >= Len(s)
        THEN JsonErr(<<"U","n","t","e","r","m","i","n","a","t","e","d"," ","s","t","r","i","n","g"," ","s","t","a","r","t","i","n","g"," ","a","t">>, end - 1)
        ELSE IF at(s, j) = "\""
        THEN JsonOk(PyStr(slice(s, end, j)), j + 1)
        ELSE JsonErr(<<"I","n","v","a","l","i","d"," ","c","o","n","t","r","o","l"," ","c","h","a","r","a","c","t","e","r"," ","a","t">>, j)

\* dict(pairs): a later pair replaces an earlier one of the same key
dict_set(d, k, val) == [x \in (DOMAIN d) \cup {k} |-> IF x = k THEN val ELSE d[x]]

RECURSIVE scan_once(_, _)
RECURSIVE array_items(_, _, _)
RECURSIVE object_pairs(_, _, _)

\* JSONArray((s, end)): end is the index after "["
JSONArray(s, end) ==
    LET e1 == IF at(s, end) \in Whitespace THEN skip_ws(s, end + 1) ELSE end
    IN  IF at(s, e1) = "]" THEN JsonOk(PyList(<<>>), e1 + 1)
        ELSE array_items(s, e1, <<>>)

array_items(s, end, values) ==
    LET r == scan_once(s, end)
    IN  IF ~r.ok THEN r
        ELSE LET e1 == skip_ws(s, r.end)
                 nextchar == at(s, e1)
                 vals == Append(values, r.value)
             IN  IF nextchar = "]" THEN JsonOk(PyList(vals), e1 + 1)
                 ELSE IF nextchar # ","
                 THEN JsonErr(<<"E","x","p","e","c","t","i","n","g"," ","'",",","'"," ","d","e","l","i","m","i","t","e","r">>, e1)
                 ELSE array_items(s, skip_ws(s, e1 + 1), vals)

\* JSONObject((s, end)): end is the index after "{"
JSONObject(s, end) ==
    LET e1 == IF at(s, end) # "\"" /\ at(s, end) \in Whitespace
              THEN skip_ws(s, end) ELSE end
        nextchar == at(s, e1)
    IN  IF nextchar = "}" THEN JsonOk(PyDict(<<>>), e1 + 1)
        ELSE IF nextchar # "\""
        THEN JsonErr(<<"E","x","p","e","c","t","i","n","g"," ","p","r","o","p","e","r","t","y"," ","n","a","m","e"," ","e","n","c","l","o","s","e","d"," ","i","n"," ","d","o","u","b","l","e"," ","q","u","o","t","e","s">>, e1)
        ELSE object_pairs(s, e1 + 1, <<>>)

\* the loop of JSONObject: end is the index after the opening quote of a key
object_pairs(s, end, d) ==
    LET key == scanstring(s, end)
    IN  IF ~key.ok THEN key
        ELSE LET e1 == IF at(s, key.end) # ":" THEN skip_ws(s, key.end) ELSE key.end
             IN  IF at(s, e1) # ":"
                 THEN JsonErr(<<"E","x","p","e","c","t","i","n","g"," ","'",":","'"," ","d","e","l","i","m","i","t","e","r">>, e1)
                 ELSE LET r == scan_once(s, skip_ws(s, e1 + 1))
                      IN  IF ~r.ok THEN r
                          ELSE LET e3 == skip_ws(s, r.end)
                                   nextchar == at(s, e3)
                                   d2 == dict_set(d, key.value.v, r.value)
                                   e4 == skip_ws(s, e3 + 1)
                               IN  IF nextchar = "}" THEN JsonOk(PyDict(d2), e3 + 1)
                                   ELSE IF nextchar # ","
                                   THEN JsonErr(<<"E","x","p","e","c","t","i","n","g"," ","'",",","'"," ","d","e","l","i","m","i","t","e","r">>, e3)
                                   ELSE IF at(s, e4) # "\""
                                   THEN JsonErr(<<"E","x","p","e","c","t","i","n","g"," ","p","r","o","p","e","r","t","y"," ","n","a","m","e"," ","e","n","c","l","o","s","e","d"," ","i","n"," ","d","o","u","b","l","e"," ","q","u","o","t","e","s">>, e4)
                                   ELSE object_pairs(s, e4 + 1, d2)

\* scan_once(string, idx); StopIteration(idx) is reported by every caller as
\* JSONDecodeError("Expecting value", s, idx)
scan_once(s, idx) ==
    LET nextchar == at(s, idx)
    IN  CASE nextchar = "\"" -> scanstring(s, idx + 1)
          [] nextchar = "{" -> JSONObject(s, idx + 1)
          [] nextchar = "[" -> JSONArray(s, idx + 1)
          [] nextchar = "n" /\ slice(s, idx, idx + 4) = <<"n","u","l","l">> -> JsonOk(PyNone, idx + 4)
          [] nextchar = "t" /\ slice(s, idx, idx + 4) = <<"t","r","u","e">> -> JsonOk(PyBool(TRUE), idx + 4)
          [] nextchar = "f" /\ slice(s, idx, idx + 5) = <<"f","a","l","s","e">> -> JsonOk(PyBool(FALSE), idx + 5)
          [] IsDigit(nextchar) -> scan_number(s, idx)
          [] OTHER -> JsonErr(<<"E","x","p","e","c","t","i","n","g"," ","v","a","l","u","e">>, idx)

\* json.loads(s): JSONDecoder.decode
loads(s) ==
    LET r == scan_once(s, skip_ws(s, 0))
        end == skip_ws(s, r.end)
    IN  IF ~r.ok THEN r
        ELSE IF end # Len(s) THEN JsonErr(<<"E","x","t","r","a"," ","d","a","t","a">>, end)
        ELSE r

\* str(e) of a JSONDecodeError: "msg: line L column C (char pos)"
decode_error_str(doc, e) ==
    LET newlines == {i \in 1..e.end : doc[i] = "\n"}
        lineno == Cardinality(newlines) + 1
        colno == IF newlines = {} THEN e.end + 1
                 ELSE e.end - ((CHOOSE i \in newlines : \A j \in newlines : j <= i) - 1)
    IN  e.msg \o <<":"," ","l","i","n","e"," ">> \o str_int(lineno) \o <<" ","c","o","l","u","m","n"," ">> \o str_int(colno)
              \o <<" ","(","c","h","a","r"," ">> \o str_int(e.end) \o <<")">>

(***************************************************************************)
(* Payload Extractor: Birdwatcher._run_json from the return of             *)
(* _run_command on (lines 169-186)                                         *)
(***************************************************************************)
\* a search that takes the last "[" or "{" instead
json_start_last(output) ==
    LET opens == {i \in 1..Len(output) : output[i] \in {"[", "{"}}
    IN  IF opens = {} THEN -1
        ELSE (CHOOSE i \in opens : \A j \in opens : j <= i) - 1

\* the loop of lines 173-177: the index of the first "[" or "{", or -1
json_start(output) ==
    LET opens == {i \in 1..Len(output) : output[i] \in {"[", "{"}}
    IN  IF opens = {} THEN -1
        ELSE (CHOOSE i \in opens : \A j \in opens : i <= j) - 1

\* a decode that answers a JSONDecodeError with an empty list
decode_from_unwrapped(output, start) ==
    LET json_str == slice(output, start, Len(output))
        r == loads(json_str)
    IN  IF r.ok THEN Return(r.value) ELSE Return(PyList(<<>>))

\* lines 182-186: json.loads(output[start:]), a JSONDecodeError wrapped
decode_from(output, start) ==
    LET json_str == slice(output, start, Len(output))
        r == loads(json_str)
    IN  IF r.ok THEN Return(r.value)
        ELSE Raise("BirdwatcherError",
                   <<"F","a","i","l","e","d"," ","t","o"," ","p","a","r","s","e"," ","J","S","O","N",":"," ">> \o decode_error_str(json_str, r)
                       \o <<"\n","O","u","t","p","u","t",":"," ">> \o output)

\* an extractor without the test of line 179: it decodes the whole output
extract_no_guard(output) ==
    IF strip(output) = <<>> THEN Return(PyList(<<>>))
    ELSE decode_from(output, 0)

\* lines 169-186 on the output of a successful command
extract(output) ==
    IF strip(output) = <<>> THEN Return(PyList(<<>>))
    ELSE IF json_start(output) = -1 THEN Return(PyList(<<>>))
    ELSE decode_from(output, json_start(output))

\* _run_json: ran is what _run_command(f"{command} --format json") ended with
_run_json(ran) == IF ran.kind = "raise" THEN ran ELSE extract(ran.value.v)

(***************************************************************************)
(* models.py: enumerations.  A member is written as its name, a str.        *)
(***************************************************************************)
\* mapping.get(s, default): the keys are str, so only an equal str is found
mapping_get(mapping, s, default) ==
    IF s.t = "str" /\ \E i \in 1..Len(mapping) : mapping[i][1] = s.v
    THEN mapping[CHOOSE i \in 1..Len(mapping) : mapping[i][1] = s.v][2]
    ELSE default

\* the members of SegmentState, SegmentLevel and CollectionState, in
\* definition order (lines 14-21, 40-43, 58-61)
SegmentState_members ==
    <<<<"S","E","G","M","E","N","T","_","S","T","A","T","E","_","N","O","N","E">>, <<"N","O","T","_","E","X","I","S","T">>, <<"G","R","O","W","I","N","G">>, <<"S","E","A","L","E","D">>,
      <<"F","L","U","S","H","E","D">>, <<"F","L","U","S","H","I","N","G">>, <<"D","R","O","P","P","E","D">>, <<"I","M","P","O","R","T","I","N","G">>>>
SegmentLevel_members == <<<<"L","E","G","A","C","Y">>, <<"L","0">>, <<"L","1">>, <<"L","2">>>>
CollectionState_members ==
    <<<<"C","O","L","L","E","C","T","I","O","N","_","C","R","E","A","T","E","D">>, <<"C","O","L","L","E","C","T","I","O","N","_","C","R","E","A","T","I","N","G">>, <<"C","O","L","L","E","C","T","I","O","N","_","D","R","O","P","P","I","N","G">>,
      <<"C","O","L","L","E","C","T","I","O","N","_","D","R","O","P","P","E","D">>>>

\* the mapping of SegmentState.from_string (lines 26-35)
SegmentState_mapping ==
    << <<<<"S","e","g","m","e","n","t","S","t","a","t","e","N","o","n","e">>, <<"S","E","G","M","E","N","T","_","S","T","A","T","E","_","N","O","N","E">>>>,
       <<<<"N","o","t","E","x","i","s","t">>, <<"N","O","T","_","E","X","I","S","T">>>>,
       <<<<"G","r","o","w","i","n","g">>, <<"G","R","O","W","I","N","G">>>>,
       <<<<"S","e","a","l","e","d">>, <<"S","E","A","L","E","D">>>>,
       <<<<"F","l","u","s","h","e","d">>, <<"F","L","U","S","H","E","D">>>>,
       <<<<"F","l","u","s","h","i","n","g">>, <<"F","L","U","S","H","I","N","G">>>>,
       <<<<"D","r","o","p","p","e","d">>, <<"D","R","O","P","P","E","D">>>>,
       <<<<"I","m","p","o","r","t","i","n","g">>, <<"I","M","P","O","R","T","I","N","G">>>> >>

\* SegmentState.from_string (line 36)
SegmentState_from_string(s) == mapping_get(SegmentState_mapping, s, <<"S","E","G","M","E","N","T","_","S","T","A","T","E","_","N","O","N","E">>)

\* SegmentLevel.from_string (lines 48-54)
SegmentLevel_mapping ==
    << <<<<"L","e","g","a","c","y">>, <<"L","E","G","A","C","Y">>>>,
       <<<<"L","0">>, <<"L","0">>>>,
       <<<<"L","1">>, <<"L","1">>>>,
       <<<<"L","2">>, <<"L","2">>>> >>

SegmentLevel_from_string(s) == mapping_get(SegmentLevel_mapping, s, <<"L","E","G","A","C","Y">>)

\* CollectionState.from_string (lines 66-72)
CollectionState_mapping ==
    << <<<<"C","o","l","l","e","c","t","i","o","n","C","r","e","a","t","e","d">>, <<"C","O","L","L","E","C","T","I","O","N","_","C","R","E","A","T","E","D">>>>,
       <<<<"C","o","l","l","e","c","t","i","o","n","C","r","e","a","t","i","n","g">>, <<"C","O","L","L","E","C","T","I","O","N","_","C","R","E","A","T","I","N","G">>>>,
       <<<<"C","o","l","l","e","c","t","i","o","n","D","r","o","p","p","i","n","g">>, <<"C","O","L","L","E","C","T","I","O","N","_","D","R","O","P","P","I","N","G">>>>,
       <<<<"C","o","l","l","e","c","t","i","o","n","D","r","o","p","p","e","d">>, <<"C","O","L","L","E","C","T","I","O","N","_","D","R","O","P","P","E","D">>>> >>

CollectionState_from_string(s) == mapping_get(CollectionState_mapping, s, <<"C","O","L","L","E","C","T","I","O","N","_","C","R","E","A","T","E","D">>)

\* DataType: <<the name of a member, its value>>
DataType_members ==
    << <<<<"N","O","N","E">>, 0>>,
       <<<<"B","O","O","L">>, 1>>,
       <<<<"I","N","T","8">>, 2>>,
       <<<<"I","N","T","1","6">>, 3>>,
       <<<<"I","N","T","3","2">>, 4>>,
       <<<<"I","N","T","6","4">>, 5>>,
       <<<<"F","L","O","A","T">>, 10>>,
       <<<<"D","O","U","B","L","E">>, 11>>,
       <<<<"S","T","R","I","N","G">>, 20>>,
       <<<<"V","A","R","C","H","A","R">>, 21>>,
       <<<<"A","R","R","A","Y">>, 22>>,
       <<<<"J","S","O","N">>, 23>>,
       <<<<"G","E","O","M","E","T","R","Y">>, 24>>,
       <<<<"T","I","M","E","S","T","A","M","P","T","Z">>, 26>>,
       <<<<"B","I","N","A","R","Y","_","V","E","C","T","O","R">>, 100>>,
       <<<<"F","L","O","A","T","_","V","E","C","T","O","R">>, 101>>,
       <<<<"F","L","O","A","T","1","6","_","V","E","C","T","O","R">>, 102>>,
       <<<<"B","F","L","O","A","T","1","6","_","V","E","C","T","O","R">>, 103>>,
       <<<<"S","P","A","R","S","E","_","F","L","O","A","T","_","V","E","C","T","O","R">>, 104>>,
       <<<<"I","N","T","8","_","V","E","C","T","O","R">>, 105>> >>

\* the loop of lines 102-105 (a bool is an int: True == 1, False == 0)
member_of_value(n) ==
    IF \E i \in 1..Len(DataType_members) : DataType_members[i][2] = n
    THEN DataType_members[CHOOSE i \in 1..Len(DataType_members) : DataType_members[i][2] = n][1]
    ELSE <<"N","O","N","E">>

\* cls.__members__.get(name, cls.NONE)
member_of_name(name) ==
    IF \E i \in 1..Len(DataType_members) : DataType_members[i][1] = name
    THEN name
    ELSE <<"N","O","N","E">>

\* a conversion that looks the str up as it is written
DataType_from_value_no_normalise(val) ==
    CASE val.t = "int" -> member_of_value(val.v)
      [] val.t = "bool" -> member_of_value(IF val.v THEN 1 ELSE 0)
      [] val.t = "str" -> member_of_name(val.v)
      [] OTHER -> <<"N","O","N","E">>

\* DataType.from_value (lines 98-108)
DataType_from_value(val) ==
    CASE val.t = "int" -> member_of_value(val.v)
      [] val.t = "bool" -> member_of_value(IF val.v THEN 1 ELSE 0)
      [] val.t = "str" -> member_of_name(replace(upper(val.v), " ", "_"))
      [] OTHER -> <<"N","O","N","E">>

(***************************************************************************)
(* models.py: entities.  An entity is [t |-> class, v |-> its fields]; a   *)
(* field holds the Python value the record gave, or the default.  For each *)
(* from_dict, X_raises(data) is the exception the call raises ("" when it  *)
(* returns) and X_from_dict(data) is what it returns.                      *)
(***************************************************************************)
PyObj(class, fields) == [t |-> class, v |-> fields]

\* data.get(key, default) on a dict
get(data, key, default) == IF key \in DOMAIN data.v THEN data.v[key] ELSE default

\* hash(x) raises TypeError
unhashable(x) == x.t \in {"list", "dict"}

\* a comprehension raises what its first raising item raises: excs[i] is the
\* exception of item i, "" when it raises none
first_raise(excs) ==
    LET hits == {i \in 1..Len(excs) : excs[i] # ""}
    IN  IF hits = {} THEN "" ELSE excs[CHOOSE i \in hits : \A j \in hits : i <= j]

\* {kv["key"]: kv["value"] for kv in lst}
kv_raises_one(kv) ==
    IF kv.t # "dict" THEN "TypeError"
    ELSE IF <<"k","e","y">> \notin DOMAIN kv.v THEN "KeyError"
    ELSE IF <<"v","a","l","u","e">> \notin DOMAIN kv.v THEN "KeyError"
    ELSE IF unhashable(kv.v[<<"k","e","y">>]) THEN "TypeError"
    ELSE ""

kv_raises(lst) ==
    CASE lst.t = "list" ->
            first_raise([i \in 1..Len(lst.v) |-> kv_raises_one(lst.v[i])])
      [] lst.t = "dict" -> IF DOMAIN lst.v = {} THEN "" ELSE "TypeError"
      [] lst.t = "str" -> IF lst.v = <<>> THEN "" ELSE "TypeError"
      [] OTHER -> "TypeError"

\* True == 1 and False == 0 as dict keys
key_of(k) == IF k.t = "bool" THEN PyInt(IF k.v THEN 1 ELSE 0) ELSE k

RECURSIVE kv_pairs(_, _)
kv_pairs(items, d) ==
    IF items = <<>> THEN d
    ELSE kv_pairs(Tail(items),
                  dict_set(d, key_of(Head(items).v[<<"k","e","y">>]), Head(items).v[<<"v","a","l","u","e">>]))

kv_dict(lst) == PyDict(IF lst.t = "list" THEN kv_pairs(lst.v, <<>>) ELSE <<>>)

\* Session.from_dict (lines 122-132)
Session_raises(data) == IF data.t # "dict" THEN "AttributeError" ELSE ""

Session_from_dict(data) ==
    PyObj("Session",
          [server_id |-> get(data, <<"S","e","r","v","e","r","I","D">>, PyInt(0)),
           server_name |-> get(data, <<"S","e","r","v","e","r","N","a","m","e">>, PyStr(<<>>)),
           address |-> get(data, <<"A","d","d","r","e","s","s">>, PyStr(<<>>)),
           hostname |-> get(data, <<"H","o","s","t","N","a","m","e">>, PyStr(<<>>)),
           version |-> get(data, <<"V","e","r","s","i","o","n">>, PyStr(<<>>)),
           lease_id |-> get(data, <<"L","e","a","s","e","I","D">>, PyInt(0)),
           exclusive |-> get(data, <<"E","x","c","l","u","s","i","v","e">>, PyBool(FALSE))])

\* Session.component_type (lines 139-142)
component_type(s) == lower(s.v.server_name.v)

\* a coordinator test that does not lower-case the name
is_coordinator_case_sensitive(s) == contains(<<"c","o","o","r","d">>, s.v.server_name.v)

\* Session.is_coordinator (lines 134-137)
is_coordinator(s) == contains(<<"c","o","o","r","d">>, lower(s.v.server_name.v))

\* FieldSchema.from_dict (lines 159-172)
FieldSchema_raises(data) ==
    IF data.t # "dict" THEN "AttributeError"
    ELSE kv_raises(get(data, <<"t","y","p","e","_","p","a","r","a","m","s">>, PyList(<<>>)))

FieldSchema_from_dict(data) ==
    PyObj("FieldSchema",
          [field_id |-> get(data, <<"f","i","e","l","d","I","D">>, PyInt(0)),
           name |-> get(data, <<"n","a","m","e">>, PyStr(<<>>)),
           data_type |-> DataType_from_value(get(data, <<"d","a","t","a","_","t","y","p","e">>, PyInt(0))),
           is_primary_key |-> get(data, <<"i","s","_","p","r","i","m","a","r","y","_","k","e","y">>, PyBool(FALSE)),
           auto_id |-> get(data, <<"a","u","t","o","I","D">>, PyBool(FALSE)),
           is_partition_key |-> get(data, <<"i","s","_","p","a","r","t","i","t","i","o","n","_","k","e","y">>, PyBool(FALSE)),
           is_clustering_key |-> get(data, <<"i","s","_","c","l","u","s","t","e","r","i","n","g","_","k","e","y">>, PyBool(FALSE)),
           is_dynamic |-> get(data, <<"i","s","_","d","y","n","a","m","i","c">>, PyBool(FALSE)),
           nullable |-> get(data, <<"n","u","l","l","a","b","l","e">>, PyBool(FALSE)),
           type_params |-> kv_dict(get(data, <<"t","y","p","e","_","p","a","r","a","m","s">>, PyList(<<>>)))])

\* [FieldSchema.from_dict(f) for f in fields_data]
fields_raises(fields_data) ==
    CASE fields_data.t = "list" ->
            first_raise([i \in 1..Len(fields_data.v) |-> FieldSchema_raises(fields_data.v[i])])
      [] fields_data.t = "dict" -> IF DOMAIN fields_data.v = {} THEN "" ELSE "AttributeError"
      [] fields_data.t = "str" -> IF fields_data.v = <<>> THEN "" ELSE "AttributeError"
      [] OTHER -> "TypeError"

\* Collection.from_dict (lines 191-207)
Collection_raises(data) ==
    IF data.t # "dict" THEN "AttributeError"
    ELSE LET schema == get(data, <<"s","c","h","e","m","a">>, PyDict(<<>>))
         IN  IF schema.t # "dict" THEN "AttributeError"
             ELSE IF unhashable(get(data, <<"s","t","a","t","e">>, PyStr(<<>>))) THEN "TypeError"
             ELSE IF fields_raises(get(schema, <<"f","i","e","l","d","s">>, PyList(<<>>))) # ""
             THEN fields_raises(get(schema, <<"f","i","e","l","d","s">>, PyList(<<>>)))
             ELSE kv_raises(get(data, <<"p","r","o","p","e","r","t","i","e","s">>, PyList(<<>>)))

Collection_from_dict(data) ==
    LET schema == get(data, <<"s","c","h","e","m","a">>, PyDict(<<>>))
        fields_data == get(schema, <<"f","i","e","l","d","s">>, PyList(<<>>))
    IN  PyObj("Collection",
          [id |-> get(data, <<"I","D">>, PyInt(0)),
           name |-> get(schema, <<"n","a","m","e">>, PyStr(<<>>)),
           db_id |-> get(data, <<"d","b","_","i","d">>, PyInt(0)),
           state |-> CollectionState_from_string(get(data, <<"s","t","a","t","e">>, PyStr(<<>>))),
           schema_version |-> get(schema, <<"v","e","r","s","i","o","n">>, PyInt(0)),
           fields |-> IF fields_data.t = "list"
                      THEN [i \in 1..Len(fields_data.v) |-> FieldSchema_from_dict(fields_data.v[i])]
                      ELSE <<>>,
           consistency_level |-> get(data, <<"c","o","n","s","i","s","t","e","n","c","y","_","l","e","v","e","l">>, PyStr(<<>>)),
           virtual_channels |-> get(data, <<"v","i","r","t","u","a","l","_","c","h","a","n","n","e","l","_","n","a","m","e","s">>, PyList(<<>>)),
           physical_channels |-> get(data, <<"p","h","y","s","i","c","a","l","_","c","h","a","n","n","e","l","_","n","a","m","e","s">>, PyList(<<>>)),
           properties |-> kv_dict(get(data, <<"p","r","o","p","e","r","t","i","e","s">>, PyList(<<>>))),
           create_time |-> PyNone,
           enable_dynamic_field |-> get(schema, <<"e","n","a","b","l","e","_","d","y","n","a","m","i","c","_","f","i","e","l","d">>, PyBool(FALSE))])

\* Segment.from_dict (lines 260-274)
Segment_raises(data) ==
    IF data.t # "dict" THEN "AttributeError"
    ELSE IF unhashable(get(data, <<"S","t","a","t","e">>, PyStr(<<>>))) THEN "TypeError"
    ELSE IF unhashable(get(data, <<"L","e","v","e","l">>, PyStr(<<>>))) THEN "TypeError"
    ELSE ""

Segment_from_dict(data) ==
    PyObj("Segment",
          [id |-> get(data, <<"I","D">>, PyInt(0)),
           collection_id |-> get(data, <<"C","o","l","l","e","c","t","i","o","n","I","D">>, PyInt(0)),
           partition_id |-> get(data, <<"P","a","r","t","i","t","i","o","n","I","D">>, PyInt(0)),
           state |-> SegmentState_from_string(get(data, <<"S","t","a","t","e">>, PyStr(<<>>))),
           level |-> SegmentLevel_from_string(get(data, <<"L","e","v","e","l">>, PyStr(<<>>))),
           num_rows |-> get(data, <<"N","u","m","O","f","R","o","w","s">>, PyInt(0)),
           max_rows |-> get(data, <<"M","a","x","R","o","w","N","u","m">>, PyInt(0)),
           insert_channel |-> get(data, <<"I","n","s","e","r","t","C","h","a","n","n","e","l">>, PyStr(<<>>)),
           storage_version |-> get(data, <<"S","t","o","r","a","g","e","V","e","r","s","i","o","n">>, PyInt(0)),
           is_sorted |-> get(data, <<"I","s","S","o","r","t","e","d">>, PyBool(FALSE)),
           compaction_from |-> get(data, <<"C","o","m","p","a","c","t","i","o","n","F","r","o","m">>, PyList(<<>>)),
           binlog_count |-> PyInt(0),
           statslog_count |-> PyInt(0),
           deltalog_count |-> PyInt(0)])

\* A Python float that is a quotient of two ints is written as that quotient,
\* [n |-> numerator, d |-> denominator], and compared exactly.  The float
\* comparison agrees with the exact one for row counts below 2^53.
Ratio(n, d) == [n |-> n, d |-> d]
ratio_lt(a, b) ==
    IF a.d * b.d > 0 THEN a.n * b.d < b.n * a.d ELSE a.n * b.d > b.n * a.d
ratio_le(a, b) ==
    IF a.d * b.d > 0 THEN a.n * b.d <= b.n * a.d ELSE a.n * b.d >= b.n * a.d

\* Segment.fill_ratio (lines 276-281)
fill_ratio_raises(seg) ==
    IF ~numeric(seg.v.max_rows) THEN "TypeError"
    ELSE IF num(seg.v.max_rows) # 0 /\ ~numeric(seg.v.num_rows) THEN "TypeError"
    ELSE ""

fill_ratio(seg) ==
    IF num(seg.v.max_rows) = 0 THEN Ratio(0, 1)
    ELSE Ratio(num(seg.v.num_rows), num(seg.v.max_rows))

\* a small test that includes the threshold
is_small_inclusive(seg) == ratio_le(fill_ratio(seg), Ratio(1, 5))

\* Segment.is_small (lines 283-286): self.fill_ratio < 0.2
is_small(seg) == ratio_lt(fill_ratio(seg), Ratio(1, 5))

\* Partition.from_dict (lines 297-304)
Partition_raises(data) == IF data.t # "dict" THEN "AttributeError" ELSE ""

Partition_from_dict(data) ==
    PyObj("Partition",
          [id |-> get(data, <<"p","a","r","t","i","t","i","o","n","_","i","d">>, PyInt(0)),
           name |-> get(data, <<"p","a","r","t","i","t","i","o","n","_","n","a","m","e">>, PyStr(<<>>)),
           collection_id |-> get(data, <<"c","o","l","l","e","c","t","i","o","n","_","i","d">>, PyInt(0)),
           state |-> get(data, <<"s","t","a","t","e">>, PyStr(<<>>))])

\* Index.from_dict (lines 317-326)
Index_raises(data) ==
    IF data.t # "dict" THEN "AttributeError"
    ELSE kv_raises(get(data, <<"i","n","d","e","x","_","p","a","r","a","m","s">>, PyList(<<>>)))

Index_from_dict(data) ==
    PyObj("Index",
          [index_id |-> get(data, <<"i","n","d","e","x","_","i","d">>, PyInt(0)),
           index_name |-> get(data, <<"i","n","d","e","x","_","n","a","m","e">>, PyStr(<<>>)),
           collection_id |-> get(data, <<"c","o","l","l","e","c","t","i","o","n","_","i","d">>, PyInt(0)),
           field_id |-> get(data, <<"f","i","e","l","d","_","i","d">>, PyInt(0)),
           index_params |-> kv_dict(get(data, <<"i","n","d","e","x","_","p","a","r","a","m","s">>, PyList(<<>>))),
           is_deleted |-> get(data, <<"i","s","_","d","e","l","e","t","e","d">>, PyBool(FALSE))])

\* Replica.from_dict (lines 337-344)
Replica_raises(data) == IF data.t # "dict" THEN "AttributeError" ELSE ""

Replica_from_dict(data) ==
    PyObj("Replica",
          [replica_id |-> get(data, <<"r","e","p","l","i","c","a","I","D">>, PyInt(0)),
           collection_id |-> get(data, <<"c","o","l","l","e","c","t","i","o","n","I","D">>, PyInt(0)),
           resource_group |-> get(data, <<"r","e","s","o","u","r","c","e","_","g","r","o","u","p">>, PyStr(<<>>)),
           nodes |-> get(data, <<"n","o","d","e","s">>, PyList(<<>>))])

\* Checkpoint.from_dict (lines 355-361)
Checkpoint_raises(data) == IF data.t # "dict" THEN "AttributeError" ELSE ""

Checkpoint_from_dict(data) ==
    PyObj("Checkpoint",
          [channel |-> get(data, <<"c","h","a","n","n","e","l">>, PyStr(<<>>)),
           msg_id |-> get(data, <<"m","s","g","_","i","d">>, PyStr(<<>>)),
           timestamp |-> get(data, <<"t","i","m","e","s","t","a","m","p">>, PyInt(0)),
           position_time |-> PyNone])

\* Database.from_dict (lines 372-379)
Database_raises(data) ==
    IF data.t # "dict" THEN "AttributeError"
    ELSE kv_raises(get(data, <<"p","r","o","p","e","r","t","i","e","s">>, PyList(<<>>)))

Database_from_dict(data) ==
    PyObj("Database",
          [id |-> get(data, <<"i","d">>, PyInt(0)),
           name |-> get(data, <<"n","a","m","e">>, PyStr(<<>>)),
           state |-> get(data, <<"s","t","a","t","e">>, PyStr(<<>>)),
           properties |-> kv_dict(get(data, <<"p","r","o","p","e","r","t","i","e","s">>, PyList(<<>>)))])

\* the class a list or get method maps its records to
from_dict(class, data) ==
    CASE class = "Session" -> Session_from_dict(data)
      [] class = "Collection" -> Collection_from_dict(data)
      [] class = "Segment" -> Segment_from_dict(data)
      [] class = "Partition" -> Partition_from_dict(data)
      [] class = "Index" -> Index_from_dict(data)
      [] class = "Replica" -> Replica_from_dict(data)
      [] class = "Checkpoint" -> Checkpoint_from_dict(data)
      [] class = "Database" -> Database_from_dict(data)

RECURSIVE pick_mapped(_, _)
from_dict_raises(class, data) ==
    CASE class = "Session" -> Session_raises(data)
      [] class = "Collection" -> Collection_raises(data)
      [] class = "Segment" -> Segment_raises(data)
      [] class = "Partition" -> Partition_raises(data)
      [] class = "Index" -> Index_raises(data)
      [] class = "Replica" -> Replica_raises(data)
      [] class = "Checkpoint" -> Checkpoint_raises(data)
      [] class = "Database" -> Database_raises(data)

pick_mapped(class, items) ==
    IF items = <<>> THEN <<>>
    ELSE IF from_dict_raises(class, Head(items)) # "" THEN pick_mapped(class, Tail(items))
    ELSE <<from_dict(class, Head(items))>> \o pick_mapped(class, Tail(items))

\* a mapping that leaves out the items from_dict raises on
map_items_skipping(class, data) ==
    IF data.t = "dict"
    THEN IF DOMAIN data.v = {} THEN Return(PyList(<<>>)) ELSE Raise("AttributeError", <<>>)
    ELSE Return(PyList(pick_mapped(class, data.v)))

\* [X.from_dict(item) for item in data]: data is the list or dict that
\* _run_json returned; iterating a dict yields its keys, which are str
map_items(class, data) ==
    IF data.t = "dict"
    THEN IF DOMAIN data.v = {} THEN Return(PyList(<<>>)) ELSE Raise("AttributeError", <<>>)
    ELSE LET exc == first_raise([k \in 1..Len(data.v) |-> from_dict_raises(class, data.v[k])])
         IN  IF exc = ""
             THEN Return(PyList([k \in 1..Len(data.v) |-> from_dict(class, data.v[k])]))
             ELSE Raise(exc, <<>>)

(***************************************************************************)
(* client.py: the command each public method composes                      *)
(***************************************************************************)
\* f"{command} --format json" (line 168)
with_format(command) == command \o <<" ","-","-","f","o","r","m","a","t"," ","j","s","o","n">>

\* bool(x) for an Optional[Union[str, Enum]]: a member of an Enum is true
truthy_filter(o) == o # None /\ (o[1].t = "str" => o[1].v # <<>>)
\* state.name if isinstance(state, SegmentState) else state
filter_str(o) == o[1].v

\* cmd += f" {flag} {value}"
flag_int(cmd, flag, n) == cmd \o flag \o str_int(n)
flag_str(cmd, flag, s) == cmd \o flag \o s

\* list_collections (lines 274-278)
list_collections_cmd(db_id, state) ==
    LET c1 == IF db_id # None
              THEN flag_int(<<"s","h","o","w"," ","c","o","l","l","e","c","t","i","o","n","s">>, <<" ","-","-","d","b","i","d"," ">>, db_id[1])
              ELSE <<"s","h","o","w"," ","c","o","l","l","e","c","t","i","o","n","s">>
    IN  IF truthy_str(state) THEN flag_str(c1, <<" ","-","-","s","t","a","t","e"," ">>, state[1]) ELSE c1

\* get_collection (lines 298-302)
get_collection_cmd(collection_id, name) ==
    LET c1 == IF truthy_int(collection_id)
              THEN flag_int(<<"s","h","o","w"," ","c","o","l","l","e","c","t","i","o","n","s">>, <<" ","-","-","i","d"," ">>, collection_id[1])
              ELSE <<"s","h","o","w"," ","c","o","l","l","e","c","t","i","o","n","s">>
    IN  IF truthy_str(name) THEN flag_str(c1, <<" ","-","-","n","a","m","e"," ">>, name[1]) ELSE c1

\* list_segments (lines 330-340)
list_segments_cmd(collection_id, partition_id, state, level) ==
    LET c1 == IF truthy_int(collection_id)
              THEN flag_int(<<"s","h","o","w"," ","s","e","g","m","e","n","t">>, <<" ","-","-","c","o","l","l","e","c","t","i","o","n"," ">>, collection_id[1])
              ELSE <<"s","h","o","w"," ","s","e","g","m","e","n","t">>
        c2 == IF truthy_int(partition_id)
              THEN flag_int(c1, <<" ","-","-","p","a","r","t","i","t","i","o","n"," ">>, partition_id[1]) ELSE c1
        c3 == IF truthy_filter(state)
              THEN flag_str(c2, <<" ","-","-","s","t","a","t","e"," ">>, filter_str(state)) ELSE c2
    IN  IF truthy_filter(level)
        THEN flag_str(c3, <<" ","-","-","l","e","v","e","l"," ">>, filter_str(level)) ELSE c3

\* get_segment (line 355)
get_segment_cmd(segment_id) == flag_int(<<"s","h","o","w"," ","s","e","g","m","e","n","t">>, <<" ","-","-","s","e","g","m","e","n","t"," ">>, segment_id)

\* list_partitions (line 401)
list_partitions_cmd(collection_id) ==
    flag_int(<<"s","h","o","w"," ","p","a","r","t","i","t","i","o","n">>, <<" ","-","-","c","o","l","l","e","c","t","i","o","n"," ">>, collection_id)

\* list_indexes (lines 417-419)
list_indexes_cmd(collection_id) ==
    IF truthy_int(collection_id)
    THEN flag_int(<<"s","h","o","w"," ","i","n","d","e","x">>, <<" ","-","-","c","o","l","l","e","c","t","i","o","n"," ">>, collection_id[1])
    ELSE <<"s","h","o","w"," ","i","n","d","e","x">>

\* list_replicas (lines 435-437)
list_replicas_cmd(collection_id) ==
    IF truthy_int(collection_id)
    THEN flag_int(<<"s","h","o","w"," ","r","e","p","l","i","c","a">>, <<" ","-","-","c","o","l","l","e","c","t","i","o","n"," ">>, collection_id[1])
    ELSE <<"s","h","o","w"," ","r","e","p","l","i","c","a">>

\* list_checkpoints (line 453)
list_checkpoints_cmd(collection_id) ==
    flag_int(<<"s","h","o","w"," ","c","h","e","c","k","p","o","i","n","t">>, <<" ","-","-","c","o","l","l","e","c","t","i","o","n"," ">>, collection_id)

(***************************************************************************)
(* client.py: what each public method makes of the result of _run_json     *)
(***************************************************************************)
\* return [X.from_dict(item) for item in data]
list_result(class, d) == IF d.kind = "raise" THEN d ELSE map_items(class, d.value)

\* bool(data) for the list or dict that _run_json returned
nonempty(data) == IF data.t = "list" THEN data.v # <<>> ELSE DOMAIN data.v # {}

\* a lookup that takes the last element
first_or_none_last(class, d) ==
    IF d.kind = "raise" THEN d
    ELSE IF ~nonempty(d.value) THEN Return(PyNone)
    ELSE IF d.value.t = "dict" THEN Raise("KeyError", <<>>)
    ELSE IF from_dict_raises(class, d.value.v[Len(d.value.v)]) # ""
    THEN Raise(from_dict_raises(class, d.value.v[Len(d.value.v)]), <<>>)
    ELSE Return(from_dict(class, d.value.v[Len(d.value.v)]))

\* get_collection (lines 304-307) and get_segment (lines 356-359);
\* data[0] on a dict raises KeyError, its keys being str
first_or_none(class, d) ==
    IF d.kind = "raise" THEN d
    ELSE IF ~nonempty(d.value) THEN Return(PyNone)
    ELSE IF d.value.t = "dict" THEN Raise("KeyError", <<>>)
    ELSE IF from_dict_raises(class, d.value.v[1]) # ""
    THEN Raise(from_dict_raises(class, d.value.v[1]), <<>>)
    ELSE Return(from_dict(class, d.value.v[1]))

\* s.server_name.lower() raises AttributeError unless server_name is a str
names_are_str(sessions) == \A i \in 1..Len(sessions) : sessions[i].v.server_name.t = "str"

\* get_coordinators (line 239) on what list_sessions ended with
get_coordinators_result(listed) ==
    IF listed.kind = "raise" THEN listed
    ELSE IF ~names_are_str(listed.value.v) THEN Raise("AttributeError", <<>>)
    ELSE Return(PyList(SelectSeq(listed.value.v, is_coordinator)))

\* component.lower() in s.component_type (line 254)
node_matches(component, s) == contains(lower(component), component_type(s))

\* get_nodes (lines 252-255) on what list_sessions ended with
get_nodes_result(listed, component) ==
    IF listed.kind = "raise" THEN listed
    ELSE IF ~names_are_str(listed.value.v) THEN Raise("AttributeError", <<>>)
    ELSE LET sessions == SelectSeq(listed.value.v, LAMBDA s : ~is_coordinator(s))
         IN  IF truthy_str(component)
             THEN Return(PyList(SelectSeq(sessions, LAMBDA s : node_matches(component[1], s))))
             ELSE Return(PyList(sessions))

\* get_small_segments (line 380) on what list_segments ended with
get_small_segments_result(listed, threshold) ==
    IF listed.kind = "raise" THEN listed
    ELSE LET segments == listed.value.v
             exc == first_raise([k \in 1..Len(segments) |-> fill_ratio_raises(segments[k])])
         IN  IF exc # "" THEN Raise(exc, <<>>)
             ELSE Return(PyList(SelectSeq(listed.value.v,
                                          LAMBDA s : ratio_lt(fill_ratio(s), threshold))))

\* stats[key].get(name, 0) + 1
count_up(counts, name) ==
    dict_set(counts, name, (IF name \in DOMAIN counts THEN counts[name] ELSE 0) + 1)

\* a count of small segments that ignores the state
counts_as_small_any_state(seg) == is_small(seg)

\* line 530: seg.state == SegmentState.FLUSHED and seg.is_small
counts_as_small(seg) == seg.v.state = <<"F","L","U","S","H","E","D">> /\ is_small(seg)

\* a count that takes dropped segments in
counts_as_healthy_all(seg) == TRUE

\* line 525: seg.state != SegmentState.DROPPED
counts_as_healthy(seg) == seg.v.state # <<"D","R","O","P","P","E","D">>

\* one round of the loop of get_segment_stats (lines 515-531)
stats_step_raises(seg) ==
    IF counts_as_healthy(seg) /\ ~numeric(seg.v.num_rows) THEN "TypeError"
    ELSE IF seg.v.state = <<"F","L","U","S","H","E","D">> THEN fill_ratio_raises(seg)
    ELSE ""

stats_step(stats, seg) ==
    [stats EXCEPT
        !.by_state = count_up(@, seg.v.state),
        !.by_level = count_up(@, seg.v.level),
        !.total_rows = IF counts_as_healthy(seg) THEN @ + num(seg.v.num_rows) ELSE @,
        !.healthy_segments = IF counts_as_healthy(seg) THEN @ + 1 ELSE @,
        !.small_segments = IF counts_as_small(seg) THEN @ + 1 ELSE @]

RECURSIVE stats_loop(_, _)
stats_loop(stats, segments) ==
    IF segments = <<>> THEN stats
    ELSE stats_loop(stats_step(stats, Head(segments)), Tail(segments))

\* get_segment_stats (lines 506-533) on what list_segments ended with
get_segment_stats_result(listed) ==
    IF listed.kind = "raise" THEN listed
    ELSE LET segments == listed.value.v
             exc == first_raise([k \in 1..Len(segments) |-> stats_step_raises(segments[k])])
         IN  IF exc # "" THEN Raise(exc, <<>>)
             ELSE Return(PyObj("stats",
                    stats_loop([total |-> Len(segments),
                                by_state |-> <<>>,
                                by_level |-> <<>>,
                                total_rows |-> 0,
                                healthy_segments |-> 0,
                                small_segments |-> 0], segments)))

\* the loop of get_cluster_summary (lines 545-554)
RECURSIVE components_loop(_, _)
components_loop(components, sessions) ==
    IF sessions = <<>> THEN components
    ELSE LET s == Head(sessions)
             comp == component_type(s)
             sofar == IF comp \in DOMAIN components THEN components[comp] ELSE <<>>
         IN  components_loop(
                 dict_set(components, comp,
                          Append(sofar, [id |-> s.v.server_id,
                                         address |-> s.v.address,
                                         version |-> s.v.version])),
                 Tail(sessions))

\* get_cluster_summary (lines 545-564) on the two lists
get_cluster_summary_result(sessions, collections) ==
    IF ~names_are_str(sessions) THEN Raise("AttributeError", <<>>)
    ELSE Return(PyObj("summary",
            [total_components |-> Len(sessions),
             components |-> components_loop(<<>>, sessions),
             total_collections |-> Len(collections),
             collections |-> [i \in 1..Len(collections) |->
                                 [id |-> collections[i].v.id,
                                  name |-> collections[i].v.name,
                                  state |-> collections[i].v.state]]]))

(***************************************************************************)
(* The client as a state machine                                           *)
(***************************************************************************)
ListOps == {"list_sessions", "list_collections", "list_segments", "list_databases",
            "list_partitions", "list_indexes", "list_replicas", "list_checkpoints"}

\* the class whose from_dict a method applies
class_of(op) ==
    CASE op \in {"list_sessions", "get_coordinators", "get_nodes"} -> "Session"
      [] op \in {"list_collections", "get_collection"} -> "Collection"
      [] op \in {"list_segments", "get_segment", "get_small_segments",
                 "get_segment_stats"} -> "Segment"
      [] op = "list_databases" -> "Database"
      [] op = "list_partitions" -> "Partition"
      [] op = "list_indexes" -> "Index"
      [] op = "list_replicas" -> "Replica"
      [] op = "list_checkpoints" -> "Checkpoint"

\* Birdwatcher.__init__ (lines 70-73)
Init ==
    /\ etcd_addr = None
    /\ root_path = None
    /\ auto_detect = FALSE
    /\ timeout = DefaultTimeout
    /\ pc = "idle"
    /\ call = [op |-> "__init__", arg |-> <<>>, saved |-> <<>>]
    /\ invoked = <<>>
    /\ proc = NoProc
    /\ outcome = Return(PyNone)

\* a call that runs no subprocess
Done(op, arg) ==
    /\ pc' = "idle"
    /\ call' = [op |-> op, arg |-> arg, saved |-> <<>>]
    /\ invoked' = <<>>
    /\ proc' = NoProc
    /\ outcome' = Return(PyNone)

\* Birdwatcher._connect (lines 107-116)
_connect(addr, root, auto) ==
    /\ pc = "idle"
    /\ etcd_addr' = Some(addr)
    /\ root_path' = root
    /\ auto_detect' = auto
    /\ UNCHANGED timeout
    /\ Done("_connect", <<>>)

\* with Birdwatcher.connect(addr, root, auto) as bw (lines 100-103): the
\* client from here on is the new one that connect constructs and yields
connect(addr, root, auto) ==
    /\ pc = "idle"
    /\ etcd_addr' = Some(addr)
    /\ root_path' = root
    /\ auto_detect' = auto
    /\ timeout' = DefaultTimeout
    /\ Done("connect", <<>>)

\* bw.connect(addr) as a plain call on a client bw (the class docstring,
\* lines 52-54): connect is a classmethod wrapped by contextmanager (lines
\* 75-76), so the call binds the class, not bw, and returns a context manager
\* that is never entered; no statement of lines 100-103 runs
connect_unentered(addr) ==
    /\ pc = "idle"
    /\ UNCHANGED ctx
    /\ Done("connect_unentered", <<addr>>)

\* a set_timeout that also forgets the address
set_timeout_disconnecting(t) ==
    /\ pc = "idle"
    /\ timeout' = t
    /\ etcd_addr' = None
    /\ UNCHANGED <<root_path, auto_detect>>
    /\ Done("set_timeout", <<t>>)

\* Birdwatcher.set_timeout (lines 118-129)
set_timeout(t) ==
    /\ pc = "idle"
    /\ timeout' = t
    /\ UNCHANGED <<etcd_addr, root_path, auto_detect>>
    /\ Done("set_timeout", <<t>>)

\* a method up to its first subprocess.run: _run_command(command) with no
\* timeout argument (lines 133-151)
Start(op, arg, command) ==
    /\ pc = "idle"
    /\ pc' = "waiting"
    /\ call' = [op |-> op, arg |-> arg, saved |-> <<>>]
    /\ invoked' = <<Invocation(command, None)>>
    /\ proc' = NoProc
    /\ outcome' = Pending
    /\ UNCHANGED ctx

\* self._run_command(command, timeout) with a timeout given (lines 131-151)
_run_command_call(command, timeout_arg) ==
    /\ pc = "idle"
    /\ pc' = "waiting"
    /\ call' = [op |-> "_run_command", arg |-> <<timeout_arg>>, saved |-> <<>>]
    /\ invoked' = <<Invocation(command, Some(timeout_arg))>>
    /\ proc' = NoProc
    /\ outcome' = Pending
    /\ UNCHANGED ctx

list_sessions == Start("list_sessions", <<>>, with_format(<<"s","h","o","w"," ","s","e","s","s","i","o","n">>))
get_coordinators == Start("get_coordinators", <<>>, with_format(<<"s","h","o","w"," ","s","e","s","s","i","o","n">>))
get_nodes(component) == Start("get_nodes", <<component>>, with_format(<<"s","h","o","w"," ","s","e","s","s","i","o","n">>))
list_collections(db_id, state) ==
    Start("list_collections", <<db_id>>, with_format(list_collections_cmd(db_id, state)))
get_collection(collection_id, name) ==
    Start("get_collection", <<collection_id, name>>, with_format(get_collection_cmd(collection_id, name)))
list_segments(collection_id, partition_id, state, level) ==
    Start("list_segments", <<collection_id, partition_id>>,
          with_format(list_segments_cmd(collection_id, partition_id, state, level)))
get_segment(segment_id) ==
    Start("get_segment", <<>>, with_format(get_segment_cmd(segment_id)))
\* lines 376-379: list_segments(collection_id=collection_id, state=SegmentState.FLUSHED)
get_small_segments(collection_id, threshold) ==
    Start("get_small_segments", <<threshold>>,
          with_format(list_segments_cmd(collection_id, None,
                                        Some([t |-> "SegmentState", v |-> <<"F","L","U","S","H","E","D">>]), None)))
list_databases == Start("list_databases", <<>>, with_format(<<"s","h","o","w"," ","d","a","t","a","b","a","s","e">>))
list_partitions(collection_id) ==
    Start("list_partitions", <<>>, with_format(list_partitions_cmd(collection_id)))
list_indexes(collection_id) ==
    Start("list_indexes", <<collection_id>>, with_format(list_indexes_cmd(collection_id)))
list_replicas(collection_id) ==
    Start("list_replicas", <<collection_id>>, with_format(list_replicas_cmd(collection_id)))
list_checkpoints(collection_id) ==
    Start("list_checkpoints", <<>>, with_format(list_checkpoints_cmd(collection_id)))
healthz == Start("healthz", <<>>, with_format(<<"h","e","a","l","t","h","z">>))
version == Start("version", <<>>, <<"v","e","r","s","i","o","n">>)
run(command, json_output) ==
    Start("run", <<json_output>>, IF json_output THEN with_format(command) ELSE command)
\* line 504: list_segments(collection_id=collection_id)
get_segment_stats(collection_id) ==
    Start("get_segment_stats", <<>>,
          with_format(list_segments_cmd(collection_id, None, None, None)))
\* line 542: list_sessions()
get_cluster_summary == Start("get_cluster_summary", <<>>, with_format(<<"s","h","o","w"," ","s","e","s","s","i","o","n">>))

\* the caller reads is_small, and with it fill_ratio, of a segment that
\* list_segments returned (models.py lines 276-286)
Segment_properties ==
    /\ pc = "idle"
    /\ call.op = "list_segments"
    /\ outcome.kind = "return"
    /\ \E i \in 1..Len(outcome.value.v) :
          \E seg \in {outcome.value.v[i]} :
            /\ call' = [op |-> "Segment.is_small", arg |-> <<seg>>, saved |-> <<>>]
            /\ outcome' = IF fill_ratio_raises(seg) # "" THEN Raise("TypeError", <<>>)
                           ELSE Return(PyObj("properties",
                                    [fill_ratio |-> fill_ratio(seg),
                                     is_small |-> is_small(seg)]))
    /\ UNCHANGED <<ctx, pc, invoked, proc>>

\* what the method in progress returns or raises, given what its (last)
\* _run_command ended with
result_of(c, ran, d) ==
        CASE c.op = "version" ->
                IF ran.kind = "raise" THEN ran ELSE Return(PyStr(strip(ran.value.v)))
          [] c.op = "run" -> IF c.arg[1] THEN d ELSE ran
          [] c.op = "_run_command" -> ran
          [] c.op = "healthz" -> d
          [] c.op \in ListOps -> list_result(class_of(c.op), d)
          [] c.op \in {"get_collection", "get_segment"} -> first_or_none(class_of(c.op), d)
          [] c.op = "get_coordinators" -> get_coordinators_result(list_result("Session", d))
          [] c.op = "get_nodes" -> get_nodes_result(list_result("Session", d), c.arg[1])
          [] c.op = "get_small_segments" ->
                get_small_segments_result(list_result("Segment", d), c.arg[1])
          [] c.op = "get_segment_stats" ->
                get_segment_stats_result(list_result("Segment", d))
          [] c.op = "get_cluster_summary" ->
                LET collections == list_result("Collection", d)
                IN  IF collections.kind = "raise" THEN collections
                    ELSE get_cluster_summary_result(c.saved, collections.value.v)

\* a client that runs a command that did not exit once more
Finish_retrying(p) ==
    /\ pc = "waiting"
    /\ proc' = p
    /\ UNCHANGED ctx
    /\ \E ran \in {_run_command(invoked[Len(invoked)], p)} :
       \E d \in {_run_json(ran)} :
       \E sessions \in {list_result("Session", d)} :
           IF p.status # "exited" /\ Len(invoked) = 1
           THEN /\ pc' = "waiting"
                /\ invoked' = Append(invoked, invoked[1])
                /\ outcome' = Pending
                /\ UNCHANGED call
           ELSE IF call.op = "get_cluster_summary" /\ Len(invoked) = 1
           THEN IF sessions.kind = "raise"
                THEN /\ pc' = "idle"
                     /\ outcome' = sessions
                     /\ UNCHANGED <<call, invoked>>
                ELSE /\ pc' = "waiting"
                     /\ call' = [call EXCEPT !.saved = sessions.value.v]
                     /\ invoked' = Append(invoked,
                            Invocation(with_format(list_collections_cmd(None, None)), None))
                     /\ outcome' = Pending
           ELSE /\ pc' = "idle"
                /\ outcome' = result_of(call, ran, d)
                /\ UNCHANGED <<call, invoked>>

\* subprocess.run ends with p and the method runs on: to its return or raise,
\* or, in get_cluster_summary after list_sessions returned, to the
\* subprocess.run of list_collections (line 543)
Finish(p) ==
    /\ pc = "waiting"
    /\ proc' = p
    /\ UNCHANGED ctx
    /\ \E ran \in {_run_command(invoked[Len(invoked)], p)} :
       \E d \in {_run_json(ran)} :
       \E sessions \in {list_result("Session", d)} :
           IF call.op = "get_cluster_summary" /\ Len(invoked) = 1
           THEN IF sessions.kind = "raise"
                THEN /\ pc' = "idle"
                     /\ outcome' = sessions
                     /\ UNCHANGED <<call, invoked>>
                ELSE /\ pc' = "waiting"
                     /\ call' = [call EXCEPT !.saved = sessions.value.v]
                     /\ invoked' = Append(invoked,
                            Invocation(with_format(list_collections_cmd(None, None)), None))
                     /\ outcome' = Pending
           ELSE /\ pc' = "idle"
                /\ outcome' = result_of(call, ran, d)
                /\ UNCHANGED <<call, invoked>>

(***************************************************************************)
(* The calls and the subprocess results the client is checked against      *)
(***************************************************************************)
Addrs == {<<"l","o","c","a","l","h","o","s","t",":","2","3","7","9">>, <<>>}
Roots == {None, Some(<<"b","y","-","d","e","v">>)}
Timeouts == {5, 60}
CallTimeouts == {0, 7}
OptIds == {None, Some(0), Some(7)}
Ids == {7}
StateFilters ==
    {None, Some(PyStr(<<"F","l","u","s","h","e","d">>)), Some([t |-> "SegmentState", v |-> <<"F","L","U","S","H","E","D">>])}
LevelFilters == {None, Some(PyStr(<<"L","0">>))}
Components == {None, Some(<<"Q","u","e","r","y","N","o","d","e">>)}
Commands == {<<"s","h","o","w"," ","s","e","s","s","i","o","n">>, <<"c","o","n","n","e","c","t"," ","-","-","e","t","c","d"," ","e","t","c","d",":","2","3","7","9">>}

\* standard error (or, with none, standard output) of a failed command
Diagnostics ==
    {<<>>,
     <<"f","a","i","l","e","d"," ","t","o"," ","c","o","n","n","e","c","t">>,
     <<"E","r","r","o","r",":"," ","F","a","i","l","e","d"," ","T","o"," ","C","o","n","n","e","c","t"," ","t","o"," ","e","t","c","d">>,
     <<"f","a","i","l","e","d"," ","t","o"," "," ","c","o","n","n","e","c","t">>,
     <<"u","n","k","n","o","w","n"," ","c","o","m","m","a","n","d">>}

\* standard output of a command that exits 0
Outputs ==
    {<<>>,
     <<"\n">>,
     <<"[","]">>,
     <<"{","}">>,
     <<"U","s","i","n","g"," ","m","e","t","a"," ","p","a","t","h",":"," ","b","y","-","d","e","v","/","m","e","t","a","\n","[","{","}",","," ","{","\"","S","e","r","v","e","r","N","a","m","e","\"",":"," ","\"","q","u","e","r","y","c","o","o","r","d","-","1","\"","}","]">>,
     <<"[","I","N","F","O","]"," ","c","o","n","n","e","c","t","e","d","\n","[","]">>,
     <<"[","1","]">>}

ProcResults ==
    {TimeoutExpired, FileNotFoundError}
    \cup {Exited(1, out, err) : out \in {<<>>, <<"F","a","i","l","e","d"," ","t","o"," ","c","o","n","n","e","c","t">>}, err \in Diagnostics}
    \cup {Exited(0, out, <<>>) : out \in Outputs}
    \cup {Exited(0, <<"[","]">>, <<"w","a","r","n","i","n","g">>)}

Next ==
    \/ \E a \in Addrs, r \in Roots, d \in BOOLEAN : _connect(a, r, d)
    \/ \E a \in Addrs, r \in Roots, d \in BOOLEAN : connect(a, r, d)
    \/ \E a \in Addrs : connect_unentered(a)
    \/ \E n \in Timeouts : set_timeout(n)
    \/ list_sessions
    \/ get_coordinators
    \/ \E c \in Components : get_nodes(c)
    \/ \E i \in OptIds, s \in {None, Some(<<"C","o","l","l","e","c","t","i","o","n","C","r","e","a","t","e","d">>)} : list_collections(i, s)
    \/ \E i \in OptIds, n \in {None, Some(<<"c","1">>)} : get_collection(i, n)
    \/ \E i \in OptIds, j \in OptIds, s \in StateFilters, l \in LevelFilters :
          list_segments(i, j, s, l)
    \/ \E i \in Ids : get_segment(i)
    \/ \E i \in {None, Some(7)} : get_small_segments(i, Ratio(1, 5))
    \/ list_databases
    \/ \E i \in Ids : list_partitions(i)
    \/ \E i \in OptIds : list_indexes(i)
    \/ \E i \in OptIds : list_replicas(i)
    \/ \E i \in Ids : list_checkpoints(i)
    \/ healthz
    \/ version
    \/ \E c \in Commands, j \in BOOLEAN : run(c, j)
    \/ \E c \in Commands, t \in CallTimeouts : _run_command_call(c, t)
    \/ \E i \in {None, Some(7)} : get_segment_stats(i)
    \/ get_cluster_summary
    \/ \E p \in ProcResults : Finish(p)
    \/ Segment_properties

Spec == Init /\ [][Next]_vars

(***************************************************************************)
(* The Payload Extractor on every short output: run(command,               *)
(* json_output=True) is inside subprocess.run, the subprocess has exited 0 *)
(* with a text of at most MaxOut characters (or one of Outputs), and the   *)
(* method resumes.                                                         *)
(***************************************************************************)
MaxOut == 4
JsonAlphabet == {"[", "]", "{", "}", ",", ":", "\"", "1", " ", "x"}
Texts == UNION {[1..n -> JsonAlphabet] : n \in 0..MaxOut} \cup Outputs

InitJson ==
    /\ etcd_addr = None
    /\ root_path = None
    /\ auto_detect = FALSE
    /\ timeout = DefaultTimeout
    /\ pc = "waiting"
    /\ call = [op |-> "run", arg |-> <<TRUE>>, saved |-> <<>>]
    /\ invoked = <<Invocation(with_format(<<"s","h","o","w"," ","s","e","s","s","i","o","n">>), None)>>
    /\ proc \in {Exited(0, out, <<>>) : out \in Texts}
    /\ outcome = Pending

Resume == Finish(proc)

SpecJson == InitJson /\ [][Resume]_vars

(***************************************************************************)
(* The JSON text that birdwatcher writes for --format json: objects and    *)
(* arrays of strings, integers, true, false and null                       *)
(***************************************************************************)
RECURSIVE join(_, _)
join(texts, sep) ==
    IF texts = <<>> THEN <<>>
    ELSE IF Len(texts) = 1 THEN texts[1]
    ELSE texts[1] \o sep \o join(Tail(texts), sep)

json_string(s) == <<"\"">> \o s \o <<"\"">>
json_scalar(x) ==
    CASE x.t = "str" -> json_string(x.v)
      [] x.t = "int" -> str_int(x.v)
      [] x.t = "bool" -> IF x.v THEN <<"t","r","u","e">> ELSE <<"f","a","l","s","e">>
      [] OTHER -> <<"n","u","l","l">>
json_member(key, text) == json_string(key) \o <<":", " ">> \o text
json_object(members) == <<"{">> \o join(members, <<",", " ">>) \o <<"}">>
json_array(texts) == <<"[">> \o join(texts, <<",", " ">>) \o <<"]">>

\* the method op is inside its subprocess.run, which has exited 0 with text
Exited_in(op, arg, command, text) ==
    /\ etcd_addr = None
    /\ root_path = None
    /\ auto_detect = FALSE
    /\ timeout = DefaultTimeout
    /\ pc = "waiting"
    /\ call = [op |-> op, arg |-> arg, saved |-> <<>>]
    /\ invoked = <<Invocation(with_format(command), None)>>
    /\ proc = Exited(0, text, <<>>)
    /\ outcome = Pending

(***************************************************************************)
(* The enumerations on every wire value of a small set: a listing of one   *)
(* segment or one collection whose record holds the wire value w under one *)
(* of the keys State, Level, state, schema.fields[0].data_type             *)
(***************************************************************************)
MaxWireInt == 105
WireStrings ==
    {SegmentState_mapping[i][1] : i \in 1..Len(SegmentState_mapping)}
    \cup {SegmentLevel_mapping[i][1] : i \in 1..Len(SegmentLevel_mapping)}
    \cup {CollectionState_mapping[i][1] : i \in 1..Len(CollectionState_mapping)}
    \cup {DataType_members[i][1] : i \in 1..Len(DataType_members)}
    \cup {lower(DataType_members[i][1]) : i \in 1..Len(DataType_members)}
    \cup {SegmentState_members[i] : i \in 1..Len(SegmentState_members)}
    \cup {<<>>, <<"f","l","u","s","h","e","d">>, <<"F","l","u","s","h","e","d"," ">>, <<"l","0">>, <<"U","n","k","n","o","w","n">>, <<"F","l","o","a","t"," ","V","e","c","t","o","r">>,
          <<"f","l","o","a","t"," ","v","e","c","t","o","r">>, <<"f","l","o","a","t","v","e","c","t","o","r">>, <<"F","l","o","a","t","V","e","c","t","o","r">>, <<"I","n","t","6","4">>, <<"1","0","1">>,
          <<"C","o","l","l","e","c","t","i","o","n"," ","C","r","e","a","t","e","d">>, <<"c","o","l","l","e","c","t","i","o","n","c","r","e","a","t","e","d">>}
Wires ==
    {PyStr(w) : w \in WireStrings} \cup {PyInt(n) : n \in 0..MaxWireInt} \cup {PyNone}
WireKeys == {<<"S","t","a","t","e">>, <<"L","e","v","e","l">>, <<"s","t","a","t","e">>, <<"d","a","t","a","_","t","y","p","e">>}

\* the listing whose one record holds w under key
enum_listing(key, w) ==
    IF key = <<"d","a","t","a","_","t","y","p","e">>
    THEN json_array(<<json_object(<<
            json_member(<<"I","D">>, <<"7">>),
            json_member(<<"s","c","h","e","m","a">>, json_object(<<
                json_member(<<"n","a","m","e">>, json_string(<<"c","1">>)),
                json_member(<<"f","i","e","l","d","s">>, json_array(<<json_object(<<
                    json_member(<<"f","i","e","l","d","I","D">>, <<"1","0","0">>),
                    json_member(key, json_scalar(w))>>)>>))>>))>>)>>)
    ELSE json_array(<<json_object(<<json_member(<<"I","D">>, <<"7">>),
                                    json_member(key, json_scalar(w))>>)>>)

InitEnums ==
    \E key \in WireKeys, w \in Wires :
        IF key \in {<<"S","t","a","t","e">>, <<"L","e","v","e","l">>}
        THEN Exited_in("list_segments", <<None, None>>, list_segments_cmd(None, None, None, None),
                       enum_listing(key, w))
        ELSE Exited_in("list_collections", <<None>>, list_collections_cmd(None, None),
                       enum_listing(key, w))

SpecEnums == InitEnums /\ [][Resume]_vars

(***************************************************************************)
(* Segments: list_segments and get_segment_stats on every listing of at    *)
(* most MaxSegs segment records drawn from SegRows, each record            *)
(* <<State, Level, NumOfRows, MaxRowNum>>                                  *)
(***************************************************************************)
MaxSegs == 2
SegRows ==
    {<<<<"F","l","u","s","h","e","d">>, <<"L","1">>, 10, 100>>,
     <<<<"F","l","u","s","h","e","d">>, <<"L","1">>, 19, 100>>,
     <<<<"F","l","u","s","h","e","d">>, <<"L","2">>, 20, 100>>,
     <<<<"F","l","u","s","h","e","d">>, <<"L","1">>, 5, 0>>,
     <<<<"D","r","o","p","p","e","d">>, <<"L","1">>, 50, 100>>,
     <<<<"D","r","o","p","p","e","d">>, <<"L","1">>, 10, 100>>,
     <<<<"G","r","o","w","i","n","g">>, <<"L","0">>, 10, 100>>,
     <<<<"G","r","o","w","i","n","g">>, <<"L","0">>, 0, 0>>,
     <<<<"S","e","a","l","e","d">>, <<"L","e","g","a","c","y">>, 60, 100>>}

segment_record(row) ==
    json_object(<<json_member(<<"I","D">>, <<"7">>),
                  json_member(<<"S","t","a","t","e">>, json_string(row[1])),
                  json_member(<<"L","e","v","e","l">>, json_string(row[2])),
                  json_member(<<"N","u","m","O","f","R","o","w","s">>, str_int(row[3])),
                  json_member(<<"M","a","x","R","o","w","N","u","m">>, str_int(row[4]))>>)

segment_listing(rows) == json_array([i \in 1..Len(rows) |-> segment_record(rows[i])])

InitSegments ==
    \E rows \in UNION {[1..n -> SegRows] : n \in 0..MaxSegs} :
        \/ Exited_in("list_segments", <<None, None>>, list_segments_cmd(None, None, None, None),
                     segment_listing(rows))
        \/ Exited_in("get_segment_stats", <<>>, list_segments_cmd(None, None, None, None),
                     segment_listing(rows))

NextSegments == Resume \/ Segment_properties

SpecSegments == InitSegments /\ [][NextSegments]_vars

(***************************************************************************)
(* Sessions: get_coordinators and get_nodes on every listing of at most    *)
(* MaxSessions sessions named from SessionNames; the ServerID of a record  *)
(* is its place in the listing                                             *)
(***************************************************************************)
MaxSessions == 2
SessionNames ==
    {<<"q","u","e","r","y","c","o","o","r","d","-","1">>, <<"q","u","e","r","y","n","o","d","e","-","3">>, <<"Q","u","e","r","y","C","o","o","r","d","-","2">>, <<"D","a","t","a","N","o","d","e","-","5">>,
     <<"r","o","o","t","C","O","O","R","D">>, <<"p","r","o","x","y","-","1">>, <<>>}
NodeFilters == {None, Some(<<>>), Some(<<"q","u","e","r","y","n","o","d","e">>), Some(<<"Q","u","e","r","y","N","o","d","e">>)}

session_listing(names) ==
    json_array([i \in 1..Len(names) |->
        json_object(<<json_member(<<"S","e","r","v","e","r","I","D">>, str_int(i)),
                      json_member(<<"S","e","r","v","e","r","N","a","m","e">>, json_string(names[i]))>>)])

InitSessions ==
    \E names \in UNION {[1..n -> SessionNames] : n \in 0..MaxSessions} :
        \/ Exited_in("get_coordinators", <<>>, <<"s","h","o","w"," ","s","e","s","s","i","o","n">>, session_listing(names))
        \/ \E c \in NodeFilters :
              Exited_in("get_nodes", <<c>>, <<"s","h","o","w"," ","s","e","s","s","i","o","n">>, session_listing(names))

SpecSessions == InitSessions /\ [][Resume]_vars

(***************************************************************************)
(* Partial records: a list method is inside subprocess.run, which has      *)
(* exited 0 with a listing of one record that holds a subset of the wire   *)
(* fields of its class; for a collection the subset is taken of the        *)
(* record, of its schema sub-record or of the record of its one field, and *)
(* for a record with key/value entries also of the entry's two keys        *)
(***************************************************************************)
\* the members of seq at the places in keep, in their order
pick(seq, keep) ==
    LET F[i \in 0..Len(seq)] ==
            IF i = 0 THEN <<>> ELSE IF i \in keep THEN Append(F[i - 1], seq[i]) ELSE F[i - 1]
    IN  F[Len(seq)]

kv_list(kvkeep) ==
    json_array(<<json_object(pick(<<json_member(<<"k","e","y">>, <<"\"","k","\"">>),
                                    json_member(<<"v","a","l","u","e">>, <<"\"","v","\"">>)>>, kvkeep))>>)

field_members(kvkeep) ==
    <<json_member(<<"f","i","e","l","d","I","D">>, <<"1","0","0">>),
           json_member(<<"n","a","m","e">>, <<"\"","f","\"">>),
           json_member(<<"d","a","t","a","_","t","y","p","e">>, <<"1","0","1">>),
           json_member(<<"i","s","_","p","r","i","m","a","r","y","_","k","e","y">>, <<"t","r","u","e">>),
           json_member(<<"a","u","t","o","I","D">>, <<"t","r","u","e">>),
           json_member(<<"i","s","_","p","a","r","t","i","t","i","o","n","_","k","e","y">>, <<"t","r","u","e">>),
           json_member(<<"i","s","_","c","l","u","s","t","e","r","i","n","g","_","k","e","y">>, <<"t","r","u","e">>),
           json_member(<<"i","s","_","d","y","n","a","m","i","c">>, <<"t","r","u","e">>),
           json_member(<<"n","u","l","l","a","b","l","e">>, <<"t","r","u","e">>),
           json_member(<<"t","y","p","e","_","p","a","r","a","m","s">>, kv_list(kvkeep))>>
field_record(fkeep, kvkeep) == json_object(pick(field_members(kvkeep), fkeep))

schema_members(fkeep, kvkeep) ==
    <<json_member(<<"n","a","m","e">>, <<"\"","c","1","\"">>),
           json_member(<<"v","e","r","s","i","o","n">>, <<"2">>),
           json_member(<<"f","i","e","l","d","s">>, json_array(<<field_record(fkeep, kvkeep)>>)),
           json_member(<<"e","n","a","b","l","e","_","d","y","n","a","m","i","c","_","f","i","e","l","d">>, <<"t","r","u","e">>)>>
schema_record(skeep, fkeep, kvkeep) == json_object(pick(schema_members(fkeep, kvkeep), skeep))

\* the wire fields of a record of class, in full
wire_members(class, skeep, fkeep, kvkeep) ==
    CASE class = "Session" ->
        <<json_member(<<"S","e","r","v","e","r","I","D">>, <<"3">>),
           json_member(<<"S","e","r","v","e","r","N","a","m","e">>, <<"\"","q","n","-","1","\"">>),
           json_member(<<"A","d","d","r","e","s","s">>, <<"\"","h",":","1","\"">>),
           json_member(<<"H","o","s","t","N","a","m","e">>, <<"\"","h","\"">>),
           json_member(<<"V","e","r","s","i","o","n">>, <<"\"","v","2","\"">>),
           json_member(<<"L","e","a","s","e","I","D">>, <<"9">>),
           json_member(<<"E","x","c","l","u","s","i","v","e">>, <<"t","r","u","e">>)>>
      [] class = "Collection" ->
        <<json_member(<<"I","D">>, <<"8">>),
           json_member(<<"s","c","h","e","m","a">>, schema_record(skeep, fkeep, kvkeep)),
           json_member(<<"d","b","_","i","d">>, <<"1">>),
           json_member(<<"s","t","a","t","e">>, <<"\"","C","o","l","l","e","c","t","i","o","n","D","r","o","p","p","e","d","\"">>),
           json_member(<<"c","o","n","s","i","s","t","e","n","c","y","_","l","e","v","e","l">>, <<"\"","S","t","r","o","n","g","\"">>),
           json_member(<<"v","i","r","t","u","a","l","_","c","h","a","n","n","e","l","_","n","a","m","e","s">>, <<"[","\"","v","c","\"","]">>),
           json_member(<<"p","h","y","s","i","c","a","l","_","c","h","a","n","n","e","l","_","n","a","m","e","s">>, <<"[","\"","p","c","\"","]">>),
           json_member(<<"p","r","o","p","e","r","t","i","e","s">>, kv_list(kvkeep))>>
      [] class = "Segment" ->
        <<json_member(<<"I","D">>, <<"7">>),
           json_member(<<"C","o","l","l","e","c","t","i","o","n","I","D">>, <<"8">>),
           json_member(<<"P","a","r","t","i","t","i","o","n","I","D">>, <<"9">>),
           json_member(<<"S","t","a","t","e">>, <<"\"","F","l","u","s","h","e","d","\"">>),
           json_member(<<"L","e","v","e","l">>, <<"\"","L","1","\"">>),
           json_member(<<"N","u","m","O","f","R","o","w","s">>, <<"1","0">>),
           json_member(<<"M","a","x","R","o","w","N","u","m">>, <<"1","0","0">>),
           json_member(<<"I","n","s","e","r","t","C","h","a","n","n","e","l">>, <<"\"","c","h","\"">>),
           json_member(<<"S","t","o","r","a","g","e","V","e","r","s","i","o","n">>, <<"2">>),
           json_member(<<"I","s","S","o","r","t","e","d">>, <<"t","r","u","e">>),
           json_member(<<"C","o","m","p","a","c","t","i","o","n","F","r","o","m">>, <<"[","4","]">>)>>
      [] class = "Partition" ->
        <<json_member(<<"p","a","r","t","i","t","i","o","n","_","i","d">>, <<"5">>),
           json_member(<<"p","a","r","t","i","t","i","o","n","_","n","a","m","e">>, <<"\"","p","\"">>),
           json_member(<<"c","o","l","l","e","c","t","i","o","n","_","i","d">>, <<"8">>),
           json_member(<<"s","t","a","t","e">>, <<"\"","o","k","\"">>)>>
      [] class = "Index" ->
        <<json_member(<<"i","n","d","e","x","_","i","d">>, <<"1">>),
           json_member(<<"i","n","d","e","x","_","n","a","m","e">>, <<"\"","i","x","\"">>),
           json_member(<<"c","o","l","l","e","c","t","i","o","n","_","i","d">>, <<"8">>),
           json_member(<<"f","i","e","l","d","_","i","d">>, <<"2">>),
           json_member(<<"i","n","d","e","x","_","p","a","r","a","m","s">>, kv_list(kvkeep)),
           json_member(<<"i","s","_","d","e","l","e","t","e","d">>, <<"t","r","u","e">>)>>
      [] class = "Replica" ->
        <<json_member(<<"r","e","p","l","i","c","a","I","D">>, <<"1">>),
           json_member(<<"c","o","l","l","e","c","t","i","o","n","I","D">>, <<"8">>),
           json_member(<<"r","e","s","o","u","r","c","e","_","g","r","o","u","p">>, <<"\"","r","g","\"">>),
           json_member(<<"n","o","d","e","s">>, <<"[","1",","," ","2","]">>)>>
      [] class = "Checkpoint" ->
        <<json_member(<<"c","h","a","n","n","e","l">>, <<"\"","c","h","\"">>),
           json_member(<<"m","s","g","_","i","d">>, <<"\"","m","\"">>),
           json_member(<<"t","i","m","e","s","t","a","m","p">>, <<"4">>)>>
      [] class = "Database" ->
        <<json_member(<<"i","d">>, <<"1">>),
           json_member(<<"n","a","m","e">>, <<"\"","d","b","\"">>),
           json_member(<<"s","t","a","t","e">>, <<"\"","o","k","\"">>),
           json_member(<<"p","r","o","p","e","r","t","i","e","s">>, kv_list(kvkeep))>>

AllKv == 1..2
AllField == 1..Len(field_members(AllKv))
AllSchema == 1..Len(schema_members(AllField, AllKv))
AllOf(class) == 1..Len(wire_members(class, AllSchema, AllField, AllKv))
HasKv == {"Collection", "Index", "Database"}

partial_listing(class, keep, skeep, fkeep, kvkeep) ==
    json_array(<<json_object(pick(wire_members(class, skeep, fkeep, kvkeep), keep))>>)

\* the identity filters of a list method called with none, and of
\* get_collection(7), as the call records them
plain_arg(op) ==
    CASE op = "list_segments" -> <<None, None>>
      [] op \in {"list_collections", "list_indexes", "list_replicas"} -> <<None>>
      [] op = "get_collection" -> <<Some(7), None>>
      [] OTHER -> <<>>

\* the command of a list method called with no filter
plain_cmd(op) ==
    CASE op = "list_sessions" -> <<"s","h","o","w"," ","s","e","s","s","i","o","n">>
      [] op = "list_collections" -> list_collections_cmd(None, None)
      [] op = "list_segments" -> list_segments_cmd(None, None, None, None)
      [] op = "list_databases" -> <<"s","h","o","w"," ","d","a","t","a","b","a","s","e">>
      [] op = "list_partitions" -> list_partitions_cmd(7)
      [] op = "list_indexes" -> list_indexes_cmd(None)
      [] op = "list_replicas" -> list_replicas_cmd(None)
      [] op = "list_checkpoints" -> list_checkpoints_cmd(7)

InitPartial ==
    \E op \in ListOps :
        \/ \E keep \in SUBSET AllOf(class_of(op)) :
              Exited_in(op, plain_arg(op), plain_cmd(op),
                        partial_listing(class_of(op), keep, AllSchema, AllField, AllKv))
        \/ /\ op = "list_collections"
           /\ \E skeep \in SUBSET AllSchema :
                 Exited_in(op, plain_arg(op), plain_cmd(op),
                           partial_listing("Collection", AllOf("Collection"), skeep, AllField, AllKv))
        \/ /\ op = "list_collections"
           /\ \E fkeep \in SUBSET AllField, kvkeep \in SUBSET AllKv :
                 Exited_in(op, plain_arg(op), plain_cmd(op),
                           partial_listing("Collection", AllOf("Collection"), AllSchema, fkeep, kvkeep))
        \/ /\ class_of(op) \in HasKv
           /\ \E kvkeep \in SUBSET AllKv :
                 Exited_in(op, plain_arg(op), plain_cmd(op),
                           partial_listing(class_of(op), AllOf(class_of(op)), AllSchema, {}, kvkeep))

SpecPartial == InitPartial /\ [][Resume]_vars

(***************************************************************************)
(* Listings: a list method, get_collection or get_segment is inside        *)
(* subprocess.run, which has exited 0 with an array of at most MaxItems    *)
(* items; an item is a record that holds its identity, the number 7, or an *)
(* object that is not closed                                               *)
(***************************************************************************)
MaxItems == 3
GetOps == {"get_collection", "get_segment"}

\* the wire key of the identity of a record of class, and the entity's field
id_key(class) ==
    CASE class = "Session" -> <<"S","e","r","v","e","r","I","D">>
      [] class \in {"Collection", "Segment"} -> <<"I","D">>
      [] class = "Partition" -> <<"p","a","r","t","i","t","i","o","n","_","i","d">>
      [] class = "Index" -> <<"i","n","d","e","x","_","i","d">>
      [] class = "Replica" -> <<"r","e","p","l","i","c","a","I","D">>
      [] class = "Checkpoint" -> <<"t","i","m","e","s","t","a","m","p">>
      [] class = "Database" -> <<"i","d">>
id_field(class) ==
    CASE class = "Session" -> "server_id"
      [] class \in {"Collection", "Segment", "Partition", "Database"} -> "id"
      [] class = "Index" -> "index_id"
      [] class = "Replica" -> "replica_id"
      [] class = "Checkpoint" -> "timestamp"

Items(class) ==
    {json_object(<<json_member(id_key(class), str_int(k))>>) : k \in 1..2} \cup {<<"7">>, <<"{">>}

InitListings ==
    \E op \in ListOps \cup GetOps :
    \E items \in UNION {[1..n -> Items(class_of(op))] : n \in 0..MaxItems} :
        Exited_in(op, plain_arg(op),
                  CASE op = "get_collection" -> get_collection_cmd(Some(7), None)
                    [] op = "get_segment" -> get_segment_cmd(7)
                    [] OTHER -> plain_cmd(op),
                  json_array(items))

SpecListings == InitListings /\ [][Resume]_vars

(***************************************************************************)
(* Properties of the Command Composer and of the Execution Channel         *)
(***************************************************************************)
\* how often sub occurs in s
occurrences(sub, s) ==
    Cardinality({i \in 0..(Len(s) - Len(sub)) : SubSeq(s, i + 1, i + Len(sub)) = sub})

\* what the composer put in front of the command of an invocation
composed_head(inv) == SubSeq(inv.full_cmd, 1, Len(inv.full_cmd) - Len(inv.command))

\* C1: every command line handed to the subprocess is the operation's command
\* with, in front of it, exactly one connection sub-command
\* "connect --etcd <addr> ..., " when the client's address is set and the
\* command is not itself a connect command, and with nothing in front of it
\* otherwise.
C1_OneConnectPrefix ==
    \A i \in 1..Len(invoked) :
        LET inv == invoked[i]
            k == Len(inv.full_cmd) - Len(inv.command)
            head == composed_head(inv)
        IN  /\ k >= 0
            /\ SubSeq(inv.full_cmd, k + 1, Len(inv.full_cmd)) = inv.command
            /\ IF truthy_str(etcd_addr) /\ ~startswith(inv.command, lit_connect)
               THEN /\ occurrences(lit_connect_etcd, head) = 1
                    /\ startswith(head, lit_connect_etcd \o etcd_addr[1])
                    /\ SubSeq(head, Len(head) - 1, Len(head)) = <<",", " ">>
                    /\ occurrences(<<",">>, head) = 1
               ELSE head = <<>>

\* a filtered list_segments on a connected client is waiting on a command
\* line that carries the connection prefix and both filters
C1_Witness ==
    /\ pc = "waiting"
    /\ call.op = "list_segments"
    /\ truthy_str(etcd_addr)
    /\ occurrences(lit_connect_etcd, invoked[1].full_cmd) = 1
    /\ contains(<<"-","-","c","o","l","l","e","c","t","i","o","n"," ","7">>, invoked[1].full_cmd)
    /\ contains(<<"-","-","s","t","a","t","e"," ","F","l","u","s","h","e","d">>, invoked[1].full_cmd)

\* two characters that are equal up to letter case
same_letter(a, b) ==
    a = b \/ \E k \in 1..26 : {a, b} = {UpperChars[k], LowerChars[k]}

\* s holds the marker "failed to connect" in some letter case
has_marker(s) ==
    \E i \in 0..(Len(s) - Len(lit_failed_to_connect)) :
        \A j \in 1..Len(lit_failed_to_connect) :
            same_letter(s[i + j], lit_failed_to_connect[j])

\* C2: after a subprocess exit with a non-zero code the call has raised: a
\* ConnectionError when the diagnostic text (standard error, or standard
\* output when standard error is empty) holds "failed to connect" in any
\* letter case, a plain BirdwatcherError otherwise; the message ends with the
\* raw diagnostic text, and nothing is returned.
C2_NonZeroExitClassified ==
    (pc = "idle" /\ proc.status = "exited" /\ proc.returncode # 0) =>
        LET text == IF proc.stderr = <<>> THEN proc.stdout ELSE proc.stderr
            n == Len(outcome.msg)
        IN  /\ outcome.kind = "raise"
            /\ outcome.value = PyNone
            /\ outcome.exc = IF has_marker(text) THEN "ConnectionError"
                                                ELSE "BirdwatcherError"
            /\ n >= Len(text)
            /\ SubSeq(outcome.msg, n - Len(text) + 1, n) = text

\* a command failed with nothing on standard error and a capitalised marker
\* on standard output, and the call raised a ConnectionError
C2_Witness ==
    /\ pc = "idle"
    /\ proc.status = "exited"
    /\ proc.returncode # 0
    /\ proc.stderr = <<>>
    /\ proc.stdout = <<"F","a","i","l","e","d"," ","t","o"," ","c","o","n","n","e","c","t">>
    /\ outcome.exc = "ConnectionError"
(***************************************************************************)
(* Properties of the Payload Extractor                                     *)
(***************************************************************************)
has_opener(s) == \E i \in 1..Len(s) : s[i] \in {"[", "{"}

\* a JSON-returning call has resumed after an exit with code 0
extracted ==
    /\ pc = "idle"
    /\ call.op = "run"
    /\ call.arg[1]
    /\ proc.status = "exited"
    /\ proc.returncode = 0

\* C3: for an output with neither "[" nor "{" in it (the empty and the
\* whitespace-only output included) the extractor returns an empty list and
\* raises nothing.
C3_NoOpenerGivesEmptyList ==
    (extracted /\ ~has_opener(proc.stdout)) => outcome = Return(PyList(<<>>))

\* an output of text that is not blank and holds no opener was answered
\* with an empty list
C3_Witness ==
    /\ extracted
    /\ ~has_opener(proc.stdout)
    /\ strip(proc.stdout) # <<>>
    /\ outcome = Return(PyList(<<>>))

\* C4: whenever the output splits into a noise prefix without "[" or "{" and
\* a rest that starts with an opener and decodes as one JSON value, the
\* extractor returns the decode of that rest alone.
C4_NoiseDiscarded ==
    extracted =>
        \A k \in 0..Len(proc.stdout) :
            LET noise == SubSeq(proc.stdout, 1, k)
                token == SubSeq(proc.stdout, k + 1, Len(proc.stdout))
            IN  (/\ ~has_opener(noise)
                 /\ token # <<>>
                 /\ token[1] \in {"[", "{"}
                 /\ loads(token).ok)
                => outcome = Return(loads(token).value)

\* a noise prefix was followed by an array that holds a value, and the
\* extractor returned that array
C4_Witness ==
    /\ extracted
    /\ proc.stdout # <<>>
    /\ ~ proc.stdout[1] \in {"[", "{", " "}
    /\ outcome.kind = "return"
    /\ outcome.value.t = "list"
    /\ outcome.value.v # <<>>

\* the output from its first opener on
from_first_opener(s) ==
    SubSeq(s, CHOOSE i \in 1..Len(s) : s[i] \in {"[", "{"} /\ ~has_opener(SubSeq(s, 1, i - 1)),
           Len(s))

\* t is the end of s
endswith(s, t) == Len(s) >= Len(t) /\ SubSeq(s, Len(s) - Len(t) + 1, Len(s)) = t

RECURSIVE camel_from(_, _)
camel_from(name, i) ==
    IF i > Len(name) THEN <<>>
    ELSE IF name[i] = "_" THEN camel_from(name, i + 1)
    ELSE IF i = 1 \/ name[i - 1] = "_" THEN <<name[i]>> \o camel_from(name, i + 1)
    ELSE <<(IF \E k \in 1..26 : UpperChars[k] = name[i]
           THEN LowerChars[CHOOSE k \in 1..26 : UpperChars[k] = name[i]]
           ELSE name[i])>> \o camel_from(name, i + 1)

\* the member whose wire spelling w is, or else default
member_for(members, w, default) ==
    IF w.t = "str" /\ \E i \in 1..Len(members) : camel_from(members[i], 1) = w.v
    THEN members[CHOOSE i \in 1..Len(members) : camel_from(members[i], 1) = w.v]
    ELSE default

\* w spells the member name up to letter case, a space standing for "_"
spells(w, name) ==
    /\ Len(w) = Len(name)
    /\ \A j \in 1..Len(w) : same_letter(w[j], name[j]) \/ (w[j] = " " /\ name[j] = "_")

\* the DataType of an int or str wire value, or else NONE
data_type_for(w) ==
    LET hits == {i \in 1..Len(DataType_members) :
                    \/ w.t = "int" /\ DataType_members[i][2] = w.v
                    \/ w.t = "str" /\ spells(w.v, DataType_members[i][1])}
    IN  IF hits = {} THEN <<"N","O","N","E">> ELSE DataType_members[CHOOSE i \in hits : TRUE][1]

\* a listing of one record has been mapped
listed_one(op) ==
    /\ pc = "idle"
    /\ call.op = op
    /\ proc.status = "exited"
    /\ proc.returncode = 0
    /\ loads(proc.stdout).ok
    /\ loads(proc.stdout).value.t = "list"
    /\ Len(loads(proc.stdout).value.v) = 1

\* the record of that listing, and whether it holds a scalar under key
wire_record == loads(proc.stdout).value.v[1].v
wire_under(key) ==
    key \in DOMAIN wire_record /\ wire_record[key].t \in {"str", "int", "None"}

\* C6: every str, int or null wire value converts without raising: State,
\* Level and state to the member whose wire spelling it is ("Flushed" to
\* FLUSHED, "L0" to L0), and otherwise to SEGMENT_STATE_NONE, LEGACY and
\* COLLECTION_CREATED; data_type to the member with that int value (101 to
\* FLOAT_VECTOR) or with that name up to case and spaces, and otherwise to
\* NONE.
C6_EnumConversionTotal ==
    /\ (listed_one("list_segments") /\ wire_under(<<"S","t","a","t","e">>)) =>
            /\ outcome.kind = "return"
            /\ outcome.value.v[1].v.state =
                    member_for(SegmentState_members, wire_record[<<"S","t","a","t","e">>],
                               <<"S","E","G","M","E","N","T","_","S","T","A","T","E","_","N","O","N","E">>)
            /\ wire_record[<<"S","t","a","t","e">>] = PyStr(<<"F","l","u","s","h","e","d">>)
                    => outcome.value.v[1].v.state = <<"F","L","U","S","H","E","D">>
    /\ (listed_one("list_segments") /\ wire_under(<<"L","e","v","e","l">>)) =>
            /\ outcome.kind = "return"
            /\ outcome.value.v[1].v.level =
                    member_for(SegmentLevel_members, wire_record[<<"L","e","v","e","l">>], <<"L","E","G","A","C","Y">>)
            /\ wire_record[<<"L","e","v","e","l">>] = PyStr(<<"L","0">>)
                    => outcome.value.v[1].v.level = <<"L","0">>
    /\ (listed_one("list_collections") /\ wire_under(<<"s","t","a","t","e">>)) =>
            /\ outcome.kind = "return"
            /\ outcome.value.v[1].v.state =
                    member_for(CollectionState_members, wire_record[<<"s","t","a","t","e">>],
                               <<"C","O","L","L","E","C","T","I","O","N","_","C","R","E","A","T","E","D">>)
    /\ (listed_one("list_collections") /\ <<"s","c","h","e","m","a">> \in DOMAIN wire_record) =>
            LET w == wire_record[<<"s","c","h","e","m","a">>].v[<<"f","i","e","l","d","s">>].v[1].v[<<"d","a","t","a","_","t","y","p","e">>]
            IN  /\ outcome.kind = "return"
                /\ outcome.value.v[1].v.fields[1].v.data_type = data_type_for(w)
                /\ w = PyInt(101)
                        => outcome.value.v[1].v.fields[1].v.data_type = <<"F","L","O","A","T","_","V","E","C","T","O","R">>

\* a collection whose field has the data_type "float vector" was listed
\* with that field as FLOAT_VECTOR
C6_Witness ==
    /\ listed_one("list_collections")
    /\ <<"s","c","h","e","m","a">> \in DOMAIN wire_record
    /\ wire_record[<<"s","c","h","e","m","a">>].v[<<"f","i","e","l","d","s">>].v[1].v[<<"d","a","t","a","_","t","y","p","e">>] = PyStr(<<"f","l","o","a","t"," ","v","e","c","t","o","r">>)
    /\ outcome.kind = "return"
    /\ outcome.value.v[1].v.fields[1].v.data_type = <<"F","L","O","A","T","_","V","E","C","T","O","R">>

(***************************************************************************)
(* Properties of segments                                                  *)
(***************************************************************************)
\* C7: the fill ratio of a segment is its rows divided by its capacity, and
\* exactly 0.0, not an error, when the capacity is 0; the segment is small
\* exactly when the fill ratio is strictly below 0.2 = 1/5: 19 rows of 100
\* are small, 20 rows of 100 are not.
C7_FillRatioAndSmall ==
    (call.op = "Segment.is_small"
        /\ call.arg[1].v.num_rows.t = "int" /\ call.arg[1].v.max_rows.t = "int") =>
        LET rows == call.arg[1].v.num_rows.v
            cap == call.arg[1].v.max_rows.v
            fr == outcome.value.v.fill_ratio
        IN  /\ outcome.kind = "return"
            /\ fr.d > 0
            /\ cap = 0 => fr.n = 0
            /\ cap # 0 => fr.n * cap = rows * fr.d
            /\ outcome.value.v.is_small <=> (5 * fr.n < fr.d)
            /\ (rows = 19 /\ cap = 100) => outcome.value.v.is_small
            /\ (rows = 20 /\ cap = 100) => ~outcome.value.v.is_small

\* is_small was read of a segment of 20 rows of 100 and is False
C7_Witness ==
    /\ call.op = "Segment.is_small"
    /\ call.arg[1].v.num_rows = PyInt(20)
    /\ call.arg[1].v.max_rows = PyInt(100)
    /\ outcome = Return(PyObj("properties", [fill_ratio |-> Ratio(20, 100), is_small |-> FALSE]))

\* get_segment_stats has returned for a listing that decodes to records
stats_returned ==
    /\ pc = "idle"
    /\ call.op = "get_segment_stats"
    /\ proc.status = "exited"
    /\ proc.returncode = 0
    /\ loads(proc.stdout).ok
    /\ outcome.kind = "return"

\* the records of the listing, and of record i the state, the level, the
\* rows and the capacity
listed_records == loads(proc.stdout).value.v
state_of(i) ==
    member_for(SegmentState_members, listed_records[i].v[<<"S","t","a","t","e">>], <<"S","E","G","M","E","N","T","_","S","T","A","T","E","_","N","O","N","E">>)
level_of(i) ==
    member_for(SegmentLevel_members, listed_records[i].v[<<"L","e","v","e","l">>], <<"L","E","G","A","C","Y">>)
rows_of(i) == listed_records[i].v[<<"N","u","m","O","f","R","o","w","s">>].v
cap_of(i) == listed_records[i].v[<<"M","a","x","R","o","w","N","u","m">>].v
below_threshold(i) == cap_of(i) = 0 \/ 5 * rows_of(i) < cap_of(i)

\* the rows of the records 1..n that are not dropped
RECURSIVE healthy_rows(_)
healthy_rows(n) ==
    IF n = 0 THEN 0
    ELSE healthy_rows(n - 1) + (IF state_of(n) # <<"D","R","O","P","P","E","D">> THEN rows_of(n) ELSE 0)

\* C8: get_segment_stats returns total = the number of listed segments,
\* by_state and by_level = the count of segments per state and per level that
\* occurs, healthy_segments = the number of segments not DROPPED, total_rows =
\* the sum of the rows of those; for one FLUSHED 10/100 and one DROPPED 50/100
\* segment total = 2, healthy_segments = 1, total_rows = 10, by_state =
\* {FLUSHED: 1, DROPPED: 1}, small_segments = 1.
C8_SegmentStatsTotals ==
    stats_returned =>
        LET n == Len(listed_records)
            stats == outcome.value.v
        IN  /\ stats.total = n
            /\ stats.by_state = [m \in {state_of(i) : i \in 1..n} |->
                                    Cardinality({i \in 1..n : state_of(i) = m})]
            /\ stats.by_level = [m \in {level_of(i) : i \in 1..n} |->
                                    Cardinality({i \in 1..n : level_of(i) = m})]
            /\ stats.healthy_segments = Cardinality({i \in 1..n : state_of(i) # <<"D","R","O","P","P","E","D">>})
            /\ stats.total_rows = healthy_rows(n)
            /\ proc.stdout = segment_listing(<< <<<<"F","l","u","s","h","e","d">>, <<"L","1">>, 10, 100>>,
                                                <<<<"D","r","o","p","p","e","d">>, <<"L","1">>, 50, 100>> >>)
                => /\ stats.total = 2
                   /\ stats.healthy_segments = 1
                   /\ stats.total_rows = 10
                   /\ stats.by_state = [m \in {<<"F","L","U","S","H","E","D">>, <<"D","R","O","P","P","E","D">>} |-> 1]
                   /\ stats.small_segments = 1

\* the statistics of one FLUSHED 10/100 and one DROPPED 50/100 segment
C8_Witness ==
    /\ stats_returned
    /\ proc.stdout = segment_listing(<< <<<<"F","l","u","s","h","e","d">>, <<"L","1">>, 10, 100>>,
                                        <<<<"D","r","o","p","p","e","d">>, <<"L","1">>, 50, 100>> >>)
    /\ outcome.value.v.total = 2
    /\ outcome.value.v.total_rows = 10

\* C9 as stated: small_segments is the number of listed segments below the
\* threshold, whatever their state.
C9_SmallCountsEveryState ==
    stats_returned =>
        outcome.value.v.small_segments =
            Cardinality({i \in 1..Len(listed_records) : below_threshold(i)})

\* C9: small_segments is the number of listed segments that are FLUSHED and
\* below the threshold (fill ratio strictly below 0.2).
C9_SmallCountsFlushedOnly ==
    stats_returned =>
        outcome.value.v.small_segments =
            Cardinality({i \in 1..Len(listed_records) :
                            state_of(i) = <<"F","L","U","S","H","E","D">> /\ below_threshold(i)})

\* the statistics of a listing with a growing segment below the threshold
\* and a flushed one below it count one small segment
C9_Witness ==
    /\ stats_returned
    /\ Len(listed_records) = 2
    /\ state_of(1) = <<"G","R","O","W","I","N","G">> /\ below_threshold(1)
    /\ state_of(2) = <<"F","L","U","S","H","E","D">> /\ below_threshold(2)
    /\ outcome.value.v.small_segments = 1

(***************************************************************************)
(* Properties of sessions                                                  *)
(***************************************************************************)
\* s holds sub up to letter case
holds_ignoring_case(sub, s) ==
    \E i \in 0..(Len(s) - Len(sub)) :
        \A j \in 1..Len(sub) : same_letter(s[i + j], sub[j])

\* the name of the i-th listed session, and whether it names a coordinator
name_of(i) == listed_records[i].v[<<"S","e","r","v","e","r","N","a","m","e">>].v
coordinator_at(i) == holds_ignoring_case(<<"c","o","o","r","d">>, name_of(i))

\* the returned sessions are the listed ones at the places in K, in listing
\* order
returns_places(K) ==
    /\ outcome.kind = "return"
    /\ Len(outcome.value.v) = Cardinality(K)
    /\ \A j \in 1..Len(outcome.value.v) :
          /\ outcome.value.v[j].v.server_id.v \in K
          /\ outcome.value.v[j].v.server_name.v = name_of(outcome.value.v[j].v.server_id.v)
          /\ j > 1 => outcome.value.v[j - 1].v.server_id.v < outcome.value.v[j].v.server_id.v

sessions_returned(op) ==
    /\ pc = "idle"
    /\ call.op = op
    /\ proc.status = "exited"
    /\ proc.returncode = 0
    /\ loads(proc.stdout).ok

\* C10: get_coordinators returns, in listing order, exactly the sessions
\* whose name holds "coord" up to letter case; get_nodes() exactly the others;
\* get_nodes(component) exactly the others whose name holds the component up
\* to letter case; of querycoord-1 and querynode-3, get_nodes("querynode")
\* returns only the second.
C10_CoordinatorsAndNodes ==
    /\ sessions_returned("get_coordinators") =>
            returns_places({i \in 1..Len(listed_records) : coordinator_at(i)})
    /\ (sessions_returned("get_nodes") /\ ~truthy_str(call.arg[1])) =>
            returns_places({i \in 1..Len(listed_records) : ~coordinator_at(i)})
    /\ (sessions_returned("get_nodes") /\ truthy_str(call.arg[1])) =>
            returns_places({i \in 1..Len(listed_records) :
                              /\ ~coordinator_at(i)
                              /\ holds_ignoring_case(call.arg[1][1], name_of(i))})
    /\ (sessions_returned("get_nodes")
            /\ call.arg[1] = Some(<<"q","u","e","r","y","n","o","d","e">>)
            /\ proc.stdout = session_listing(<<<<"q","u","e","r","y","c","o","o","r","d","-","1">>, <<"q","u","e","r","y","n","o","d","e","-","3">>>>)) =>
            /\ Len(outcome.value.v) = 1
            /\ outcome.value.v[1].v.server_name.v = <<"q","u","e","r","y","n","o","d","e","-","3">>

\* get_nodes("QueryNode") of the listing QueryCoord-2, querynode-3 returned
\* the one session querynode-3
C10_Witness ==
    /\ sessions_returned("get_nodes")
    /\ call.arg[1] = Some(<<"Q","u","e","r","y","N","o","d","e">>)
    /\ proc.stdout = session_listing(<<<<"Q","u","e","r","y","C","o","o","r","d","-","2">>, <<"q","u","e","r","y","n","o","d","e","-","3">>>>)
    /\ outcome.kind = "return"
    /\ Len(outcome.value.v) = 1
    /\ outcome.value.v[1].v.server_id = PyInt(2)

(***************************************************************************)
(* Properties of the call path                                             *)
(***************************************************************************)
\* C11 as stated: no call of a public operation, get_cluster_summary
\* included, makes more than one subprocess invocation.
C11_AtMostOneInvocation == Len(invoked) <= 1

\* the subprocess of a call in progress ends without a clean exit, or with a
\* payload the method cannot use, and the call ends there
ends_the_call ==
    (pc = "waiting" /\ outcome'.kind = "raise") =>
        (pc' = "idle" /\ invoked' = invoked)

\* a call goes on to a further invocation only in get_cluster_summary,
\* after its listing of the sessions exited 0, and the further invocation is
\* the listing of the collections
goes_on_only_in_summary ==
    (pc = "waiting" /\ pc' = "waiting") =>
        /\ call.op = "get_cluster_summary"
        /\ Len(invoked) = 1
        /\ proc'.status = "exited" /\ proc'.returncode = 0
        /\ invoked' = Append(invoked, invoked'[2])
        /\ invoked'[2].command = <<"s","h","o","w"," ","c","o","l","l","e","c","t","i","o","n","s"," ","-","-","f","o","r","m","a","t"," ","j","s","o","n">>
        /\ invoked'[2].command # invoked[1].command

\* C11: every call of a public operation other than get_cluster_summary
\* makes at most one subprocess invocation; get_cluster_summary makes at most
\* two, the listing of the sessions and then, only when that one succeeded,
\* the listing of the collections; an invocation that failed is never
\* followed by another one in the same call.
C11_OneInvocationPerListing ==
    /\ [](Len(invoked) <= IF call.op = "get_cluster_summary" THEN 2 ELSE 1)
    /\ [][ends_the_call /\ goes_on_only_in_summary]_vars

\* get_cluster_summary has returned after two invocations
C11_Witness ==
    /\ pc = "idle"
    /\ call.op = "get_cluster_summary"
    /\ Len(invoked) = 2
    /\ invoked[1].command = <<"s","h","o","w"," ","s","e","s","s","i","o","n"," ","-","-","f","o","r","m","a","t"," ","j","s","o","n">>
    /\ outcome.kind = "return"

(***************************************************************************)
(* Properties of the connection context                                    *)
(***************************************************************************)
connects == {"connect", "_connect"}

frame_of_context ==
    /\ <<etcd_addr, root_path, auto_detect>>' # <<etcd_addr, root_path, auto_detect>>
           => (pc' = "idle" /\ call'.op \in connects)
    /\ timeout' # timeout => (pc' = "idle" /\ call'.op \in {"connect", "set_timeout"})

\* the command line of an invocation is made from the address, the root
\* namespace and the auto-detect flag that the client holds
uses_context(inv) ==
    LET head == composed_head(inv)
    IN  IF truthy_str(etcd_addr) /\ ~startswith(inv.command, lit_connect)
        THEN /\ startswith(head, lit_connect_etcd \o etcd_addr[1])
             /\ IF truthy_str(root_path)
                THEN /\ occurrences(<<" ","-","-","r","o","o","t","P","a","t","h"," ">>, head) = 1
                     /\ contains(<<" ","-","-","r","o","o","t","P","a","t","h"," ">> \o root_path[1], head)
                ELSE ~contains(<<"-","-","r","o","o","t","P","a","t","h">>, head)
             /\ auto_detect <=> contains(<<" ","-","-","a","u","t","o">>, head)
             /\ inv.full_cmd = head \o inv.command
        ELSE inv.full_cmd = inv.command

Session_wire ==
    <<<<<<"S","e","r","v","e","r","I","D">>, "server_id", PyInt(3), PyInt(0)>>,
       <<<<"S","e","r","v","e","r","N","a","m","e">>, "server_name", PyStr(<<"q","n","-","1">>), PyStr(<<>>)>>,
       <<<<"A","d","d","r","e","s","s">>, "address", PyStr(<<"h",":","1">>), PyStr(<<>>)>>,
       <<<<"H","o","s","t","N","a","m","e">>, "hostname", PyStr(<<"h">>), PyStr(<<>>)>>,
       <<<<"V","e","r","s","i","o","n">>, "version", PyStr(<<"v","2">>), PyStr(<<>>)>>,
       <<<<"L","e","a","s","e","I","D">>, "lease_id", PyInt(9), PyInt(0)>>,
       <<<<"E","x","c","l","u","s","i","v","e">>, "exclusive", PyBool(TRUE), PyBool(FALSE)>>>>

Collection_wire ==
    <<<<<<"I","D">>, "id", PyInt(8), PyInt(0)>>,
       <<<<"d","b","_","i","d">>, "db_id", PyInt(1), PyInt(0)>>,
       <<<<"s","t","a","t","e">>, "state", <<"C","O","L","L","E","C","T","I","O","N","_","D","R","O","P","P","E","D">>, <<"C","O","L","L","E","C","T","I","O","N","_","C","R","E","A","T","E","D">>>>,
       <<<<"c","o","n","s","i","s","t","e","n","c","y","_","l","e","v","e","l">>, "consistency_level", PyStr(<<"S","t","r","o","n","g">>), PyStr(<<>>)>>,
       <<<<"v","i","r","t","u","a","l","_","c","h","a","n","n","e","l","_","n","a","m","e","s">>, "virtual_channels", PyList(<<PyStr(<<"v","c">>)>>), PyList(<<>>)>>,
       <<<<"p","h","y","s","i","c","a","l","_","c","h","a","n","n","e","l","_","n","a","m","e","s">>, "physical_channels", PyList(<<PyStr(<<"p","c">>)>>), PyList(<<>>)>>,
       <<<<"p","r","o","p","e","r","t","i","e","s">>, "properties", PyDict(dict_set(<<>>, PyStr(<<"k">>), PyStr(<<"v">>))), PyDict(<<>>)>>>>

Segment_wire ==
    <<<<<<"I","D">>, "id", PyInt(7), PyInt(0)>>,
       <<<<"C","o","l","l","e","c","t","i","o","n","I","D">>, "collection_id", PyInt(8), PyInt(0)>>,
       <<<<"P","a","r","t","i","t","i","o","n","I","D">>, "partition_id", PyInt(9), PyInt(0)>>,
       <<<<"S","t","a","t","e">>, "state", <<"F","L","U","S","H","E","D">>, <<"S","E","G","M","E","N","T","_","S","T","A","T","E","_","N","O","N","E">>>>,
       <<<<"L","e","v","e","l">>, "level", <<"L","1">>, <<"L","E","G","A","C","Y">>>>,
       <<<<"N","u","m","O","f","R","o","w","s">>, "num_rows", PyInt(10), PyInt(0)>>,
       <<<<"M","a","x","R","o","w","N","u","m">>, "max_rows", PyInt(100), PyInt(0)>>,
       <<<<"I","n","s","e","r","t","C","h","a","n","n","e","l">>, "insert_channel", PyStr(<<"c","h">>), PyStr(<<>>)>>,
       <<<<"S","t","o","r","a","g","e","V","e","r","s","i","o","n">>, "storage_version", PyInt(2), PyInt(0)>>,
       <<<<"I","s","S","o","r","t","e","d">>, "is_sorted", PyBool(TRUE), PyBool(FALSE)>>,
       <<<<"C","o","m","p","a","c","t","i","o","n","F","r","o","m">>, "compaction_from", PyList(<<PyInt(4)>>), PyList(<<>>)>>>>

Partition_wire ==
    <<<<<<"p","a","r","t","i","t","i","o","n","_","i","d">>, "id", PyInt(5), PyInt(0)>>,
       <<<<"p","a","r","t","i","t","i","o","n","_","n","a","m","e">>, "name", PyStr(<<"p">>), PyStr(<<>>)>>,
       <<<<"c","o","l","l","e","c","t","i","o","n","_","i","d">>, "collection_id", PyInt(8), PyInt(0)>>,
       <<<<"s","t","a","t","e">>, "state", PyStr(<<"o","k">>), PyStr(<<>>)>>>>

Index_wire ==
    <<<<<<"i","n","d","e","x","_","i","d">>, "index_id", PyInt(1), PyInt(0)>>,
       <<<<"i","n","d","e","x","_","n","a","m","e">>, "index_name", PyStr(<<"i","x">>), PyStr(<<>>)>>,
       <<<<"c","o","l","l","e","c","t","i","o","n","_","i","d">>, "collection_id", PyInt(8), PyInt(0)>>,
       <<<<"f","i","e","l","d","_","i","d">>, "field_id", PyInt(2), PyInt(0)>>,
       <<<<"i","n","d","e","x","_","p","a","r","a","m","s">>, "index_params", PyDict(dict_set(<<>>, PyStr(<<"k">>), PyStr(<<"v">>))), PyDict(<<>>)>>,
       <<<<"i","s","_","d","e","l","e","t","e","d">>, "is_deleted", PyBool(TRUE), PyBool(FALSE)>>>>

Replica_wire ==
    <<<<<<"r","e","p","l","i","c","a","I","D">>, "replica_id", PyInt(1), PyInt(0)>>,
       <<<<"c","o","l","l","e","c","t","i","o","n","I","D">>, "collection_id", PyInt(8), PyInt(0)>>,
       <<<<"r","e","s","o","u","r","c","e","_","g","r","o","u","p">>, "resource_group", PyStr(<<"r","g">>), PyStr(<<>>)>>,
       <<<<"n","o","d","e","s">>, "nodes", PyList(<<PyInt(1), PyInt(2)>>), PyList(<<>>)>>>>

Checkpoint_wire ==
    <<<<<<"c","h","a","n","n","e","l">>, "channel", PyStr(<<"c","h">>), PyStr(<<>>)>>,
       <<<<"m","s","g","_","i","d">>, "msg_id", PyStr(<<"m">>), PyStr(<<>>)>>,
       <<<<"t","i","m","e","s","t","a","m","p">>, "timestamp", PyInt(4), PyInt(0)>>>>

Database_wire ==
    <<<<<<"i","d">>, "id", PyInt(1), PyInt(0)>>,
       <<<<"n","a","m","e">>, "name", PyStr(<<"d","b">>), PyStr(<<>>)>>,
       <<<<"s","t","a","t","e">>, "state", PyStr(<<"o","k">>), PyStr(<<>>)>>,
       <<<<"p","r","o","p","e","r","t","i","e","s">>, "properties", PyDict(dict_set(<<>>, PyStr(<<"k">>), PyStr(<<"v">>))), PyDict(<<>>)>>>>

schema_wire ==
    <<<<<<"n","a","m","e">>, "name", PyStr(<<"c","1">>), PyStr(<<>>)>>,
       <<<<"v","e","r","s","i","o","n">>, "schema_version", PyInt(2), PyInt(0)>>,
       <<<<"e","n","a","b","l","e","_","d","y","n","a","m","i","c","_","f","i","e","l","d">>, "enable_dynamic_field", PyBool(TRUE), PyBool(FALSE)>>>>

FieldSchema_wire ==
    <<<<<<"f","i","e","l","d","I","D">>, "field_id", PyInt(100), PyInt(0)>>,
       <<<<"n","a","m","e">>, "name", PyStr(<<"f">>), PyStr(<<>>)>>,
       <<<<"d","a","t","a","_","t","y","p","e">>, "data_type", <<"F","L","O","A","T","_","V","E","C","T","O","R">>, <<"N","O","N","E">>>>,
       <<<<"i","s","_","p","r","i","m","a","r","y","_","k","e","y">>, "is_primary_key", PyBool(TRUE), PyBool(FALSE)>>,
       <<<<"a","u","t","o","I","D">>, "auto_id", PyBool(TRUE), PyBool(FALSE)>>,
       <<<<"i","s","_","p","a","r","t","i","t","i","o","n","_","k","e","y">>, "is_partition_key", PyBool(TRUE), PyBool(FALSE)>>,
       <<<<"i","s","_","c","l","u","s","t","e","r","i","n","g","_","k","e","y">>, "is_clustering_key", PyBool(TRUE), PyBool(FALSE)>>,
       <<<<"i","s","_","d","y","n","a","m","i","c">>, "is_dynamic", PyBool(TRUE), PyBool(FALSE)>>,
       <<<<"n","u","l","l","a","b","l","e">>, "nullable", PyBool(TRUE), PyBool(FALSE)>>,
       <<<<"t","y","p","e","_","p","a","r","a","m","s">>, "type_params", PyDict(dict_set(<<>>, PyStr(<<"k">>), PyStr(<<"v">>))), PyDict(<<>>)>>>>

\* the attributes of an entity of class (the dataclass definitions)
entity_fields(class) ==
    CASE class = "Session" ->
            {"server_id", "server_name", "address", "hostname", "version", "lease_id", "exclusive"}
      [] class = "FieldSchema" ->
            {"field_id", "name", "data_type", "is_primary_key", "auto_id", "is_partition_key",
             "is_clustering_key", "is_dynamic", "nullable", "type_params"}
      [] class = "Collection" ->
            {"id", "name", "db_id", "state", "schema_version", "fields", "consistency_level",
             "virtual_channels", "physical_channels", "properties", "create_time",
             "enable_dynamic_field"}
      [] class = "Segment" ->
            {"id", "collection_id", "partition_id", "state", "level", "num_rows", "max_rows",
             "insert_channel", "storage_version", "is_sorted", "compaction_from", "binlog_count",
             "statslog_count", "deltalog_count"}
      [] class = "Partition" -> {"id", "name", "collection_id", "state"}
      [] class = "Index" ->
            {"index_id", "index_name", "collection_id", "field_id", "index_params", "is_deleted"}
      [] class = "Replica" -> {"replica_id", "collection_id", "resource_group", "nodes"}
      [] class = "Checkpoint" -> {"channel", "msg_id", "timestamp", "position_time"}
      [] class = "Database" -> {"id", "name", "state", "properties"}

wire_of(class) ==
    CASE class = "Session" -> Session_wire
      [] class = "Collection" -> Collection_wire
      [] class = "Segment" -> Segment_wire
      [] class = "Partition" -> Partition_wire
      [] class = "Index" -> Index_wire
      [] class = "Replica" -> Replica_wire
      [] class = "Checkpoint" -> Checkpoint_wire
      [] class = "Database" -> Database_wire

\* each field of entity e listed in table holds the value of its wire key in
\* record rec, or its default when rec lacks the key
holds_wire(e, rec, table) ==
    \A i \in 1..Len(table) :
        e.v[table[i][2]] = IF table[i][1] \in DOMAIN rec.v THEN table[i][3] ELSE table[i][4]

sub_record(rec, key) == IF key \in DOMAIN rec.v THEN rec.v[key] ELSE PyDict(<<>>)

\* entity e is the fully populated entity of class for record rec
populated(class, e, rec) ==
    /\ e.t = class
    /\ DOMAIN e.v = entity_fields(class)
    /\ holds_wire(e, rec, wire_of(class))
    /\ class = "Collection" =>
          LET schema == sub_record(rec, <<"s","c","h","e","m","a">>)
          IN  /\ holds_wire(e, schema, schema_wire)
              /\ IF <<"f","i","e","l","d","s">> \in DOMAIN schema.v
                 THEN /\ Len(e.v.fields) = 1
                      /\ e.v.fields[1].t = "FieldSchema"
                      /\ DOMAIN e.v.fields[1].v = entity_fields("FieldSchema")
                      /\ holds_wire(e.v.fields[1], schema.v[<<"f","i","e","l","d","s">>].v[1], FieldSchema_wire)
                 ELSE e.v.fields = <<>>

\* a list method has ended on a listing of one record
one_listed ==
    /\ pc = "idle"
    /\ call.op \in ListOps
    /\ proc.status = "exited"
    /\ proc.returncode = 0
    /\ loads(proc.stdout).ok
    /\ Len(listed_records) = 1

\* the listing holds a key/value entry that lacks its key or its value
partial_entry ==
    \E key \in {<<"p","r","o","p","e","r","t","i","e","s">>, <<"t","y","p","e","_","p","a","r","a","m","s">>, <<"i","n","d","e","x","_","p","a","r","a","m","s">>},
       entry \in {<<"{","}">>, <<"{","\"","k","e","y","\"",":"," ","\"","k","\"","}">>, <<"{","\"","v","a","l","u","e","\"",":"," ","\"","v","\"","}">>} :
        contains(json_member(key, json_array(<<entry>>)), proc.stdout)

\* C13: a list method that has decoded a record lacking any subset of its
\* wire fields (of the record, of its key/value entries, of its schema
\* sub-record or of a field record) returns the fully populated entity in
\* which each missing field holds its default; it does not raise.
C13_PartialRecordPopulated ==
    one_listed =>
        /\ outcome.kind = "return"
        /\ Len(outcome.value.v) = 1
        /\ populated(class_of(call.op), outcome.value.v[1], listed_records[1])

\* what does hold: the mapper raises on, and only on, a record with a
\* key/value entry that lacks its key or its value, and then a KeyError;
\* every other partial record gives the fully populated entity
partial_record_outcome ==
    one_listed =>
        IF partial_entry
        THEN outcome.kind = "raise" /\ outcome.exc = "KeyError"
        ELSE /\ outcome.kind = "return"
             /\ Len(outcome.value.v) = 1
             /\ populated(class_of(call.op), outcome.value.v[1], listed_records[1])

\* list_collections has raised KeyError on a collection, complete but for
\* its one property entry, which has a key and no value
C13_Witness ==
    /\ one_listed
    /\ call.op = "list_collections"
    /\ DOMAIN listed_records[1].v = {Collection_wire[i][1] : i \in 1..Len(Collection_wire)} \cup {<<"s","c","h","e","m","a">>}
    /\ listed_records[1].v[<<"p","r","o","p","e","r","t","i","e","s">>] = PyList(<<PyDict(dict_set(<<>>, <<"k","e","y">>, PyStr(<<"k">>)))>>)
    /\ outcome.kind = "raise"
    /\ outcome.exc = "KeyError"

\* list_segments has returned the entity of defaults for the record {}
partial_record_returned ==
    /\ one_listed
    /\ call.op = "list_segments"
    /\ proc.stdout = <<"[","{","}","]">>
    /\ outcome.kind = "return"
    /\ outcome.value.v[1].v.state = <<"S","E","G","M","E","N","T","_","S","T","A","T","E","_","N","O","N","E">>

(***************************************************************************)
(* Properties of the list and get methods                                  *)
(***************************************************************************)
\* the output holds an object that is not closed
broken_listing == contains(<<"{",",">>, proc.stdout) \/ contains(<<"{","]">>, proc.stdout)

listing_ended(ops) ==
    /\ pc = "idle"
    /\ call.op \in ops
    /\ proc.status = "exited"
    /\ proc.returncode = 0

\* e is an entity of the class of the method, with the identity of record rec
maps(e, rec) ==
    /\ e.t = class_of(call.op)
    /\ e.v[id_field(class_of(call.op))] = rec.v[id_key(class_of(call.op))]

\* C14: a list method that has run its subprocess either returns a list with
\* exactly one entity per element of the decoded array, entity i mapped from
\* element i (same length, same order, nothing left out), or raises and
\* returns nothing: it raises when the array cannot be decoded and when an
\* element cannot be mapped.
C14_OneEntityPerElement ==
    listing_ended(ListOps) =>
        IF broken_listing \/ \E i \in 1..Len(listed_records) : listed_records[i].t # "dict"
        THEN outcome.kind = "raise" /\ outcome.value = PyNone
        ELSE /\ outcome.kind = "return"
             /\ outcome.value.t = "list"
             /\ Len(outcome.value.v) = Len(listed_records)
             /\ \A i \in 1..Len(listed_records) : maps(outcome.value.v[i], listed_records[i])

\* list_partitions has returned three partitions in the order 2, 1, 2 of the
\* listing
C14_Witness ==
    /\ listing_ended({"list_partitions"})
    /\ outcome.kind = "return"
    /\ Len(listed_records) = 3
    /\ [i \in 1..3 |-> outcome.value.v[i].v.id] = <<PyInt(2), PyInt(1), PyInt(2)>>

\* a list method has raised on a listing whose second element is no record
listing_failed ==
    /\ listing_ended({"list_sessions"})
    /\ proc.stdout = <<"[","{","\"","S","e","r","v","e","r","I","D","\"",":"," ","1","}",","," ","7","]">>
    /\ outcome.kind = "raise"

\* C15: get_collection and get_segment, on a decoded array, return the
\* entity mapped from its first element when the array is not empty and
\* that element is a record, whatever follows it, and return None, raising
\* nothing, when the array is empty.
C15_FirstOrAbsent ==
    (listing_ended(GetOps) /\ ~broken_listing) =>
        IF listed_records = <<>> THEN outcome = Return(PyNone)
        ELSE IF listed_records[1].t = "dict"
        THEN outcome.kind = "return" /\ maps(outcome.value, listed_records[1])
        ELSE outcome.kind = "raise"

\* get_segment has returned the segment 2 of the listing 2, 1
C15_Witness ==
    /\ listing_ended({"get_segment"})
    /\ proc.stdout = <<"[","{","\"","I","D","\"",":"," ","2","}",","," ","{","\"","I","D","\"",":"," ","1","}","]">>
    /\ outcome.kind = "return"
    /\ outcome.value.t = "Segment"
    /\ outcome.value.v.id = PyInt(2)

\* get_collection has returned None for the empty listing
absent_returned ==
    /\ listing_ended({"get_collection"})
    /\ proc.stdout = <<"[","]">>
    /\ outcome = Return(PyNone)

(***************************************************************************)
(* Properties of the documented usage                                      *)
(***************************************************************************)
\* C16: when connect(addr) has been called on a client as a plain call and
\* list_sessions is called next, the address of the client is addr and the
\* command line of list_sessions is "show session --format json" behind the
\* connection sub-command for addr.
C16_DocumentedUsage ==
    [][(pc = "idle" /\ call.op = "connect_unentered" /\ call.arg[1] # <<>>
            /\ call'.op = "list_sessions")
       => /\ etcd_addr' = Some(call.arg[1])
          /\ startswith(invoked'[1].full_cmd, lit_connect_etcd \o call.arg[1])
          /\ endswith(invoked'[1].full_cmd, <<","," ","s","h","o","w"," ","s","e","s","s","i","o","n"," ","-","-","f","o","r","m","a","t"," ","j","s","o","n">>)]_vars

\* connect("localhost:2379") has been called on a new client as a plain call
\* and the client has no address
C16_Witness ==
    /\ pc = "idle"
    /\ call.op = "connect_unentered"
    /\ call.arg = <<<<"l","o","c","a","l","h","o","s","t",":","2","3","7","9">>>>
    /\ etcd_addr = None
    /\ timeout = DefaultTimeout

(***************************************************************************)
(* Properties of the timeout bound                                         *)
(***************************************************************************)
\* a bound of this model as the decimal text of its number of seconds
bound_text(n) ==
    CASE n = 0 -> <<"0">>
      [] n = 5 -> <<"5">>
      [] n = 7 -> <<"7">>
      [] n = 30 -> <<"3","0">>
      [] n = 60 -> <<"6","0">>

\* the configured timeout is given by set_timeout, is 30 on the client that
\* connect yields, and is otherwise left as it is
configured_by_set_timeout ==
    IF pc' = "idle" /\ call'.op = "set_timeout" THEN timeout' = call'.arg[1]
    ELSE IF pc' = "idle" /\ call'.op = "connect" THEN timeout' = 30
    ELSE timeout' = timeout

\* the bound of every invocation of the call: the value the call gave, or
\* with none given the configured timeout
bound_applied ==
    \A i \in 1..Len(invoked) :
        invoked[i].timeout = IF call.op = "_run_command" THEN call.arg[1] ELSE timeout

\* C17: the bound of a subprocess invocation is the value given with the call
\* when one is given, and otherwise the configured timeout of the client: 30
\* at first, then the value of the most recent set_timeout.  When the bound
\* elapses the call raises an error whose message names that bound, and when
\* the executable cannot be started it raises the binary-missing error; in
\* both cases it returns nothing.
C17_TimeoutBound ==
    /\ timeout = 30
    /\ [](bound_applied)
    /\ [][configured_by_set_timeout]_vars
    /\ []((pc = "idle" /\ proc.status = "TimeoutExpired") =>
            /\ outcome.kind = "raise"
            /\ outcome.exc = "BirdwatcherError"
            /\ outcome.msg = <<"C","o","m","m","a","n","d"," ","t","i","m","e","d"," ","o","u","t"," ","a","f","t","e","r"," ">>
                                \o bound_text(invoked[Len(invoked)].timeout) \o <<"s">>
            /\ outcome.value = PyNone)
    /\ []((pc = "idle" /\ proc.status = "FileNotFoundError") =>
            /\ outcome.kind = "raise"
            /\ outcome.exc = "BirdwatcherError"
            /\ startswith(outcome.msg, <<"B","i","n","a","r","y"," ","n","o","t"," ","f","o","u","n","d",":"," ">>)
            /\ outcome.value = PyNone)

\* on a client whose configured timeout set_timeout made 60, a command run
\* with the bound 7 has timed out, and the error names 7
C17_Witness ==
    /\ pc = "idle"
    /\ call.op = "_run_command"
    /\ call.arg = <<7>>
    /\ timeout = 60
    /\ proc.status = "TimeoutExpired"
    /\ outcome.msg = <<"C","o","m","m","a","n","d"," ","t","i","m","e","d"," ","o","u","t"," ","a","f","t","e","r"," ","7","s">>

\* after set_timeout(5) and then set_timeout(60), list_sessions has timed
\* out and the error names 60
configured_bound_named ==
    /\ pc = "idle"
    /\ call.op = "list_sessions"
    /\ timeout = 60
    /\ proc.status = "TimeoutExpired"
    /\ outcome.msg = <<"C","o","m","m","a","n","d"," ","t","i","m","e","d"," ","o","u","t"," ","a","f","t","e","r"," ","6","0","s">>

\* the executable of list_sessions could not be started
binary_missing ==
    /\ pc = "idle"
    /\ call.op = "list_sessions"
    /\ proc.status = "FileNotFoundError"
    /\ outcome.kind = "raise"

(***************************************************************************)
(* Properties of the identity filters                                      *)
(***************************************************************************)
\* the command of the first invocation of the call, without " --format json"
asked == SubSeq(invoked[1].command, 1, Len(invoked[1].command) - Len(with_format(<<>>)))

bound_id(n) == IF n = 0 THEN <<"0">> ELSE <<"7">>

\* the call composed the flag with the identity n when its filter o holds n,
\* and no such flag when the filter is left out
carries(flag, o) ==
    IF o = None THEN ~contains(flag, asked)
    ELSE contains(flag \o <<" ">> \o bound_id(o[1]), asked)

\* C18: list_segments, list_indexes, list_replicas and get_collection treat
\* an identity filter that is 0 as one that is left out: the command is the
\* one composed without that filter, so that get_collection(collection_id=0)
\* with no name runs the bare "show collections" and returns the entity of
\* the first collection listed.  list_collections composes --dbid for every
\* db_id that is not None, 0 included.
C18_ZeroIdFilter ==
    (pc = "waiting" \/ (pc = "idle" /\ invoked # <<>>)) =>
        /\ call.op = "list_segments" =>
              /\ carries(<<"-","-","c","o","l","l","e","c","t","i","o","n">>, IF call.arg[1] = Some(0) THEN None ELSE call.arg[1])
              /\ carries(<<"-","-","p","a","r","t","i","t","i","o","n">>, IF call.arg[2] = Some(0) THEN None ELSE call.arg[2])
              /\ (call.arg[1] \in {None, Some(0)} /\ call.arg[2] \in {None, Some(0)})
                    => startswith(asked, <<"s","h","o","w"," ","s","e","g","m","e","n","t">>)
                       /\ (Len(asked) > Len(<<"s","h","o","w"," ","s","e","g","m","e","n","t">>)
                             => startswith(asked, <<"s","h","o","w"," ","s","e","g","m","e","n","t"," ","-","-","s","t","a","t","e"," ">>)
                                \/ startswith(asked, <<"s","h","o","w"," ","s","e","g","m","e","n","t"," ","-","-","l","e","v","e","l"," ">>))
        /\ call.op \in {"list_indexes", "list_replicas"} =>
              /\ carries(<<"-","-","c","o","l","l","e","c","t","i","o","n">>, IF call.arg[1] = Some(0) THEN None ELSE call.arg[1])
              /\ call.arg[1] \in {None, Some(0)} =>
                    asked = IF call.op = "list_indexes" THEN <<"s","h","o","w"," ","i","n","d","e","x">> ELSE <<"s","h","o","w"," ","r","e","p","l","i","c","a">>
        /\ call.op = "get_collection" =>
              /\ carries(<<"-","-","i","d">>, IF call.arg[1] = Some(0) THEN None ELSE call.arg[1])
              /\ (call.arg[1] \in {None, Some(0)} /\ call.arg[2] = None) =>
                    /\ asked = <<"s","h","o","w"," ","c","o","l","l","e","c","t","i","o","n","s">>
                    /\ (pc = "idle" /\ proc.status = "exited" /\ proc.returncode = 0
                            /\ extract(proc.stdout).kind = "return"
                            /\ extract(proc.stdout).value.t = "list"
                            /\ extract(proc.stdout).value.v # <<>>
                            /\ extract(proc.stdout).value.v[1].t = "dict")
                          => (outcome.kind = "return" /\ outcome.value.t = "Collection")
        /\ call.op = "list_collections" => carries(<<"-","-","d","b","i","d">>, call.arg[1])

\* get_collection(collection_id=0) has run "show collections" and returned
\* the first collection of a listing of two
C18_Witness ==
    /\ pc = "idle"
    /\ call.op = "get_collection"
    /\ call.arg = <<Some(0), None>>
    /\ invoked[1].command = <<"s","h","o","w"," ","c","o","l","l","e","c","t","i","o","n","s"," ","-","-","f","o","r","m","a","t"," ","j","s","o","n">>
    /\ proc.status = "exited"
    /\ proc.returncode = 0
    /\ Len(extract(proc.stdout).value.v) = 2
    /\ outcome.kind = "return"
    /\ outcome.value.t = "Collection"

\* list_collections(db_id=0) waits on a command with --dbid 0
dbid_zero_composed ==
    /\ pc = "waiting"
    /\ call.op = "list_collections"
    /\ call.arg = <<Some(0)>>
    /\ startswith(invoked[1].command, <<"s","h","o","w"," ","c","o","l","l","e","c","t","i","o","n","s"," ","-","-","d","b","i","d"," ","0">>)
====
